---- MODULE Spec2Model ----
(***************************************************************************)
(* Order settlement core of Order-Swift: cart -> order conversion, the     *)
(* wallet ledger, coupon redemption, the order status state machine and    *)
(* the payment-verification boundary.                                      *)
(*                                                                         *)
(* The relational store is modelled at READ COMMITTED: a transaction's     *)
(* writes are buffered in the request's locals and applied at COMMIT; a    *)
(* row written (or SELECTed FOR UPDATE) by an open transaction is locked   *)
(* until that transaction commits or rolls back.  Money is in paise.       *)
(***************************************************************************)
EXTENDS Integers, Sequences, FiniteSets, TLC

\* ---------------------------------------------------------------- bounds
\* orders placed
MaxOrders == 1
\* ledger rows after which no further top-up is started
MaxLedger == 1
\* units in a cart
MaxQty    == 2
\* refunds booked after which no further cancelOrder is started
MaxRefunds == 2
\* orders placed where one user's checkouts follow each other
MaxPlaced == 2

\* ------------------------------------------------------------ the catalog
Users       == {"u1", "u2"}
Owners      == {"w1", "w2"}
Procs       == {1, 2}
\* SQL NULL of a nullable uuid / integer column, and "no row"
Null        == 0
NoOrder     == Null
NoCart      == Null
NoRzp       == Null
NoPrep      == Null
NoKey       == "nokey"
NoCoupon    == "nocoupon"
NoVariant   == "novariant"
NoWallet    == [exists |-> FALSE, balance |-> 0]

\* restaurants rows: isActive, isOpen, minOrder, preparationTime, ownerId
Restaurants ==
  [ r1 |-> [isActive |-> TRUE, isOpen |-> TRUE, minOrder |-> 10000, preparationTime |-> 20, ownerId |-> "w1"],
    r2 |-> [isActive |-> TRUE, isOpen |-> TRUE, minOrder |-> 0,     preparationTime |-> 20, ownerId |-> "w2"],
    r3 |-> [isActive |-> FALSE, isOpen |-> TRUE, minOrder |-> 0,    preparationTime |-> 20, ownerId |-> "w3"],
    r4 |-> [isActive |-> TRUE, isOpen |-> FALSE, minOrder |-> 0,    preparationTime |-> 20, ownerId |-> "w4"] ]

\* menu_items rows
MenuItems ==
  [ m1 |-> [restaurantId |-> "r1", basePrice |-> 8000, isAvailable |-> TRUE],
    m2 |-> [restaurantId |-> "r2", basePrice |-> 5000, isAvailable |-> TRUE],
    m3 |-> [restaurantId |-> "r3", basePrice |-> 5000, isAvailable |-> TRUE],
    m4 |-> [restaurantId |-> "r4", basePrice |-> 5000, isAvailable |-> TRUE] ]

MenuItemIds == DOMAIN MenuItems

\* menu_item_variants and add_ons rows
Variants ==
  [ v1 |-> [menuItemId |-> "m1", price |-> 12000] ]

AddOns ==
  [ a1 |-> [menuItemId |-> "m1", price |-> 2000],
    a2 |-> [menuItemId |-> "m2", price |-> 1000] ]

VariantIds == DOMAIN Variants
AddOnIds   == DOMAIN AddOns

\* coupons rows (static columns); usedCount is state.  usageLimit -1 and
\* maxDiscount 0 stand for NULL; expired: expiresAt is set and in the past
Coupons ==
  [ SAVE10 |-> [type |-> "percentage", value |-> 10, minOrder |-> 10000, maxDiscount |-> 1000,
                usageLimit |-> -1, perUserLimit |-> 3, isActive |-> TRUE, expired |-> FALSE],
    BIG    |-> [type |-> "flat", value |-> 50000, minOrder |-> 0, maxDiscount |-> 0,
                usageLimit |-> -1, perUserLimit |-> 1, isActive |-> TRUE, expired |-> FALSE],
    PCT15  |-> [type |-> "percentage", value |-> 15, minOrder |-> 0, maxDiscount |-> 0,
                usageLimit |-> -1, perUserLimit |-> 3, isActive |-> TRUE, expired |-> FALSE],
    FEW    |-> [type |-> "flat", value |-> 3000, minOrder |-> 10000, maxDiscount |-> 0,
                usageLimit |-> 1, perUserLimit |-> 1, isActive |-> TRUE, expired |-> FALSE],
    OLD    |-> [type |-> "flat", value |-> 3000, minOrder |-> 10000, maxDiscount |-> 0,
                usageLimit |-> 0, perUserLimit |-> 1, isActive |-> TRUE, expired |-> TRUE],
    OFF    |-> [type |-> "flat", value |-> 3000, minOrder |-> 10000, maxDiscount |-> 0,
                usageLimit |-> -1, perUserLimit |-> 1, isActive |-> FALSE, expired |-> TRUE] ]

CouponCodes == DOMAIN Coupons

\* ------------------------------------------------------------- the state
VARIABLES
  carts,        \* [Users -> cart row: id (NoCart when absent), restaurantId, lines]
  orders,       \* sequence of order rows; an order's id is its index
  orderItems,   \* sequence of order_items rows
  wallets,      \* [Users -> wallets row: exists, balance]
  walletTx,     \* sequence of wallet_transactions rows (append-only)
  menuPrice,    \* [MenuItemIds -> menu_items.base_price]
  menuAvailable, \* [MenuItemIds -> menu_items.is_available]
  variantLive,  \* [VariantIds -> whether the menu_item_variants row exists]
  usedCount,    \* [CouponCodes -> coupons.used_count]
  couponUsage,  \* sequence of coupon_usage rows
  pc,           \* [Procs -> position of the request the slot is handling]
  loc,          \* [Procs -> locals of that request]
  ret,          \* [Procs -> outcome of the slot's last completed request]
  tasks         \* fire-and-forget promises started after createOrder's COMMIT

dbVars   == <<carts, orders, orderItems, wallets, walletTx, menuPrice, menuAvailable, variantLive, usedCount, couponUsage>>
vars     == <<carts, orders, orderItems, wallets, walletTx, menuPrice, menuAvailable, variantLive, usedCount, couponUsage,
              pc, loc, ret, tasks>>

\* -------------------------------------------------------------- helpers
RECURSIVE SumSeq(_)
SumSeq(s) == IF s = <<>> THEN 0 ELSE Head(s) + SumSeq(Tail(s))

Min(a, b) == IF a < b THEN a ELSE b
Max(a, b) == IF a > b THEN a ELSE b

SeqMap(Op(_), s) == [i \in 1..Len(s) |-> Op(s[i])]

\* some enumeration of a finite set
RECURSIVE SetToSeq(_)
SetToSeq(S) == IF S = {} THEN <<>>
               ELSE LET x == CHOOSE y \in S : TRUE IN <<x>> \o SetToSeq(S \ {x})

EmptyCart == [id |-> NoCart, restaurantId |-> "none", lines |-> <<>>]

IdleLoc ==
  [ op |-> "none", user |-> "none", key |-> NoKey, useWallet |-> FALSE, coupon |-> NoCoupon,
    orderId |-> NoOrder, newStatus |-> "none", prep |-> NoPrep, owner |-> "none",
    cartId |-> NoCart, restaurantId |-> "none", items |-> <<>>,
    subtotal |-> 0, discount |-> 0, total |-> 0, walletAmt |-> 0,
    readStatus |-> "none", amount |-> 0, rzp |-> NoRzp, sigOk |-> FALSE,
    menuItemId |-> "none", variantId |-> NoVariant, addOnIds |-> <<>>, quantity |-> 0,
    idx |-> 0, avail |-> {}, added |-> <<>>, skipped |-> <<>> ]

NoRet == [op |-> "none", ok |-> FALSE, orderId |-> NoOrder, err |-> "none", discount |-> 0]

OkRet(o, id)  == [op |-> o, ok |-> TRUE,  orderId |-> id, err |-> "none", discount |-> 0]
ErrRet(o, e)  == [op |-> o, ok |-> FALSE, orderId |-> NoOrder, err |-> e, discount |-> 0]
\* { coupon, discountAmount }
ValidRet(d)   == [op |-> "validateCoupon", ok |-> TRUE, orderId |-> NoOrder, err |-> "none",
                  discount |-> d]

\* { added, skipped }: the past lines added and skipped, by position
ReorderRet(a, k) == [op |-> "reorder", ok |-> TRUE, orderId |-> NoOrder, err |-> "none",
                     discount |-> 0, added |-> a, skipped |-> k]

\* a request ends: the slot is idle again and holds the outcome
Finish(p, r) ==
  /\ pc'  = [pc  EXCEPT ![p] = "idle"]
  /\ loc' = [loc EXCEPT ![p] = IdleLoc]
  /\ ret' = [ret EXCEPT ![p] = r]

Goto(p, label, l) ==
  /\ pc'  = [pc  EXCEPT ![p] = label]
  /\ loc' = [loc EXCEPT ![p] = l]
  /\ UNCHANGED ret

\* ----------------------------------------------------------------- Init
Init ==
  /\ carts       = [u \in Users |-> EmptyCart]
  /\ orders      = <<>>
  /\ orderItems  = <<>>
  /\ wallets     = [u \in Users |-> NoWallet]
  /\ walletTx    = <<>>
  /\ menuPrice   = [m \in MenuItemIds |-> MenuItems[m].basePrice]
  /\ menuAvailable = [m \in MenuItemIds |-> MenuItems[m].isAvailable]
  /\ variantLive = [v \in VariantIds |-> TRUE]
  /\ usedCount   = [c \in CouponCodes |-> 0]
  /\ couponUsage = <<>>
  /\ pc          = [p \in Procs |-> "idle"]
  /\ loc         = [p \in Procs |-> IdleLoc]
  /\ ret         = [p \in Procs |-> NoRet]
  /\ tasks       = {}

\* ------------------------------------------------------------- the cart
\* getOrCreateCart: the user's cart row, or null
getOrCreateCart(u) == carts[u]

\* the add-on snapshot built from the rows of add_ons among the requested ids
\* that belong to the menu item
AddOnSnapshot(menuItemId, addOnIds) ==
  { [addOnId |-> a, price |-> AddOns[a].price] :
      a \in {x \in AddOnIds : (\E i \in 1..Len(addOnIds) : addOnIds[i] = x)
                              /\ AddOns[x].menuItemId = menuItemId} }

\* JSON.stringify([...ids].sort()): two sorted id arrays print the same text
\* exactly when they hold the same ids the same number of times
Fingerprint(ids) ==
  [a \in AddOnIds |-> Cardinality({i \in 1..Len(ids) : ids[i] = a})]

StoredFingerprint(line) ==
  [a \in AddOnIds |-> IF \E s \in line.addOns : s.addOnId = a THEN 1 ELSE 0]

MatchingRows(lines, menuItemId, variantId, addOnIds) ==
  { i \in 1..Len(lines) :
      /\ lines[i].menuItemId = menuItemId
      /\ lines[i].variantId = variantId
      /\ StoredFingerprint(lines[i]) = Fingerprint(addOnIds) }

SetMin(S) == CHOOSE x \in S : \A y \in S : x <= y

\* carts.id defaults to a random uuid: an id no cart row and no running request holds
FreshCartId ==
  SetMin({i \in 1..(Cardinality(Users) + Cardinality(Procs) + 1) :
            /\ \A u \in Users : carts[u].id # i
            /\ \A q \in Procs : loc[q].cartId # i})

\* an addToCart that does not compare restaurants
AddToCartCheck_Lenient(u, menuItemId) ==
  IF menuItemId \notin MenuItemIds \/ ~menuAvailable[menuItemId] THEN "not_available"
  ELSE "ok"

\* addToCart lines 45-58: the error thrown, or "ok"
AddToCartCheck(u, menuItemId) ==
  IF menuItemId \notin MenuItemIds \/ ~menuAvailable[menuItemId] THEN "not_available"
  ELSE IF getOrCreateCart(u).id # NoCart
          /\ getOrCreateCart(u).restaurantId # MenuItems[menuItemId].restaurantId
    THEN "other_restaurant"
  ELSE "ok"

\* addToCart(userId, {menuItemId, variantId, addOnIds, quantity}), accepted
addToCart(u, menuItemId, variantId, addOnIds, quantity) ==
  LET item     == MenuItems[menuItemId]
      existing == getOrCreateCart(u)
  IN  /\ AddToCartCheck(u, menuItemId) = "ok"
      /\ LET cart  == IF existing.id # NoCart THEN existing
                      ELSE [id |-> FreshCartId, restaurantId |-> item.restaurantId, lines |-> <<>>]
             match == MatchingRows(cart.lines, menuItemId, variantId, addOnIds)
         IN  /\ IF match # {}
                  THEN LET i == SetMin(match)
                       IN  carts' = [carts EXCEPT ![u] =
                             [cart EXCEPT !.lines[i].quantity = @ + quantity]]
                  ELSE carts' = [carts EXCEPT ![u] =
                         [cart EXCEPT !.lines = Append(@,
                            [menuItemId |-> menuItemId, variantId |-> variantId,
                             addOns |-> AddOnSnapshot(menuItemId, addOnIds),
                             quantity |-> quantity])]]

\* POST /cart/add: the request is parsed
AC_Call(p, u, menuItemId, variantId, addOnIds, quantity) ==
  /\ pc[p] = "idle"
  /\ pc'  = [pc  EXCEPT ![p] = "ac_run"]
  /\ loc' = [loc EXCEPT ![p] = [IdleLoc EXCEPT !.op = "addToCart", !.user = u,
                                               !.menuItemId = menuItemId, !.variantId = variantId,
                                               !.addOnIds = addOnIds, !.quantity = quantity]]
  /\ ret' = [ret EXCEPT ![p] = NoRet]
  /\ UNCHANGED <<carts, orders, orderItems, wallets, walletTx, menuPrice, menuAvailable, variantLive, usedCount, couponUsage, tasks>>

\* addToCart runs: it throws, or creates the cart if need be and merges or
\* inserts the line
AC_Run(p) ==
  /\ pc[p] = "ac_run"
  /\ LET l == loc[p]
         c == AddToCartCheck(l.user, l.menuItemId)
     IN  IF c # "ok"
           THEN /\ carts' = carts
                /\ Finish(p, ErrRet("addToCart", c))
           ELSE /\ addToCart(l.user, l.menuItemId, l.variantId, l.addOnIds, l.quantity)
                /\ Finish(p, OkRet("addToCart", NoOrder))
  /\ UNCHANGED <<orders, orderItems, wallets, walletTx, menuPrice, menuAvailable, variantLive, usedCount, couponUsage, tasks>>

\* removeCartItem(userId, cartItemId): the line goes, and with the last line
\* the cart
removeCartItem(u, k) ==
  /\ carts[u].id # NoCart /\ k \in 1..Len(carts[u].lines)
  /\ LET rest == [i \in 1..(Len(carts[u].lines) - 1) |->
                   IF i < k THEN carts[u].lines[i] ELSE carts[u].lines[i + 1]]
     IN  carts' = [carts EXCEPT ![u] = IF rest = <<>> THEN EmptyCart
                                       ELSE [carts[u] EXCEPT !.lines = rest]]

\* clearCart(userId)
clearCart(u) ==
  /\ carts[u].id # NoCart
  /\ carts' = [carts EXCEPT ![u] = EmptyCart]

\* a pricing that charges the menu item's base price whatever the variant
PricedLine_BaseOnly(line) ==
  LET addOnPrice == SumSeq(SeqMap(LAMBDA a : a.price, SetToSeq(line.addOns)))
      unitPrice  == menuPrice[line.menuItemId] + addOnPrice
  IN  [menuItemId |-> line.menuItemId, variantId |-> line.variantId, addOns |-> line.addOns,
       quantity |-> line.quantity, unitPrice |-> unitPrice,
       totalPrice |-> unitPrice * line.quantity]

\* _getCartItemsWithDetails: the cart's lines priced from the catalog
PricedLine(line) ==
  LET basePrice  == IF line.variantId # NoVariant
                      THEN Variants[line.variantId].price
                      ELSE menuPrice[line.menuItemId]
      addOnPrice == SumSeq(SeqMap(LAMBDA a : a.price, SetToSeq(line.addOns)))
      unitPrice  == basePrice + addOnPrice
  IN  [menuItemId |-> line.menuItemId, variantId |-> line.variantId, addOns |-> line.addOns,
       quantity |-> line.quantity, unitPrice |-> unitPrice,
       totalPrice |-> unitPrice * line.quantity]

_getCartItemsWithDetails(cart) == SeqMap(PricedLine, cart.lines)

\* _calculatePricing
_calculatePricing(items) ==
  LET subtotal == SumSeq(SeqMap(LAMBDA i : i.totalPrice, items))
  IN  [subtotal |-> subtotal, discountAmount |-> 0, totalAmount |-> subtotal - 0]

\* getCart(userId)
getCart(u) ==
  LET cart == getOrCreateCart(u) IN
  IF cart.id = NoCart
    THEN [cart |-> cart, items |-> <<>>, pricing |-> [subtotal |-> 0, discountAmount |-> 0, totalAmount |-> 0]]
    ELSE [cart |-> cart, items |-> _getCartItemsWithDetails(cart),
          pricing |-> _calculatePricing(_getCartItemsWithDetails(cart))]

\* ------------------------------------------------------------ coupons
\* code.trim().toUpperCase()
Normalize(code) ==
  CASE code = "save10" -> "SAVE10"
    [] code = "big"    -> "BIG"
    [] code = " few "  -> "FEW"
    [] code = "Old"    -> "OLD"
    [] code = " "      -> ""
    [] OTHER           -> code

\* Number.prototype.toFixed(2) of x/100, x in paise: rounds to the paisa
DivRound(x, d) == (2 * x + d) \div (2 * d)

\* a count that forgets the redemptions of cancelled orders
TimesUsed_Live(u, c) ==
  Cardinality({i \in 1..Len(couponUsage) :
                 /\ couponUsage[i].userId = u /\ couponUsage[i].couponId = c
                 /\ orders[couponUsage[i].orderId].status # "cancelled"})

\* COUNT(*) of the coupon_usage rows of (userId, couponId)
TimesUsed(u, c) ==
  Cardinality({i \in 1..Len(couponUsage) :
                 couponUsage[i].userId = u /\ couponUsage[i].couponId = c})

\* a discount that is not capped at the subtotal
CouponDiscount_Uncapped(c, subtotal) == Coupons[c].value

\* a percentage discount that ignores maxDiscount
CouponDiscount_CapIgnored(c, subtotal) ==
  LET coupon == Coupons[c]
      raw    == IF coupon.type = "flat"
                  THEN coupon.value
                  ELSE DivRound(subtotal * coupon.value, 100)
  IN  Min(raw, subtotal)

\* the discount validateCoupon computes for an accepted coupon
CouponDiscount(c, subtotal) ==
  LET coupon == Coupons[c]
      raw    == IF coupon.type = "flat"
                  THEN coupon.value
                  ELSE LET pct == DivRound(subtotal * coupon.value, 100)
                       IN  IF coupon.maxDiscount # 0 THEN Min(pct, coupon.maxDiscount) ELSE pct
  IN  Min(raw, subtotal)

\* a validateCoupon without the expiry check
validateCoupon_NoExpiry(code, u, subtotal) ==
  LET c == Normalize(code) IN
  IF c = "" THEN "code_required"
  ELSE IF c \notin CouponCodes \/ ~Coupons[c].isActive THEN "invalid"
  ELSE IF Coupons[c].usageLimit # -1 /\ usedCount[c] >= Coupons[c].usageLimit THEN "usage_limit"
  ELSE IF subtotal < Coupons[c].minOrder THEN "min_order"
  ELSE IF TimesUsed(u, c) >= Coupons[c].perUserLimit THEN "per_user_limit"
  ELSE "ok"

\* validateCoupon(code, userId, subtotal): the error thrown, or "ok"
validateCoupon(code, u, subtotal) ==
  LET c == Normalize(code) IN
  IF c = "" THEN "code_required"
  ELSE IF c \notin CouponCodes \/ ~Coupons[c].isActive THEN "invalid"
  ELSE IF Coupons[c].expired THEN "expired"
  ELSE IF Coupons[c].usageLimit # -1 /\ usedCount[c] >= Coupons[c].usageLimit THEN "usage_limit"
  ELSE IF subtotal < Coupons[c].minOrder THEN "min_order"
  ELSE IF TimesUsed(u, c) >= Coupons[c].perUserLimit THEN "per_user_limit"
  ELSE "ok"

\* POST /coupons/validate { code, subtotal }: the request is parsed
VC_Call(p, u, code, subtotal) ==
  /\ pc[p] = "idle"
  /\ pc'  = [pc  EXCEPT ![p] = "vc_read"]
  /\ loc' = [loc EXCEPT ![p] = [IdleLoc EXCEPT !.op = "validateCoupon", !.user = u,
                                               !.coupon = code, !.subtotal = subtotal]]
  /\ ret' = [ret EXCEPT ![p] = NoRet]
  /\ UNCHANGED <<menuPrice, menuAvailable, variantLive, carts, orders, orderItems, wallets, walletTx, usedCount, couponUsage, tasks>>

\* validateCoupon reads the tables and answers
VC_Read(p) ==
  /\ pc[p] = "vc_read"
  /\ LET l == loc[p]
         v == validateCoupon(l.coupon, l.user, l.subtotal)
     IN  Finish(p, IF v = "ok" THEN ValidRet(CouponDiscount(Normalize(l.coupon), l.subtotal))
                             ELSE ErrRet("validateCoupon", v))
  /\ UNCHANGED <<menuPrice, menuAvailable, variantLive, carts, orders, orderItems, wallets, walletTx, usedCount, couponUsage, tasks>>

\* ------------------------------------------------------------ row locks
\* the request slots and tasks whose open transaction holds the wallet row
WalletHolders(u) ==
  {q \in Procs : loc[q].user = u /\ pc[q] \in {"am_tx_commit", "ca_tx_commit"}
                 /\ loc[q].amount > 0}

\* a wallet row whose lock is never released
WalletLocked_Forever(u) == TRUE

\* a wallet row nobody ever holds
WalletLocked_Never(u) == FALSE

WalletLocked(u) ==
  \/ WalletHolders(u) # {}
  \/ \E t \in tasks : t.kind = "debit" /\ t.user = u /\ t.pc = "locked"

\* the request slots whose open transaction has updated the order row
OrderLocked(o) ==
  \E q \in Procs : loc[q].orderId = o /\ pc[q] \in {"ca_tx_refund", "ca_tx_commit"}

\* ---------------------------------------------------------- createOrder
\* a table that lets a ready order go back to confirmed
STATE_TRANSITIONS_Loose ==
  [ pending   |-> {"paid", "cancelled"},
    paid      |-> {"confirmed", "cancelled"},
    confirmed |-> {"preparing", "cancelled"},
    preparing |-> {"ready"},
    ready     |-> {"collected", "confirmed"},
    collected |-> {},
    cancelled |-> {} ]

STATE_TRANSITIONS ==
  [ pending   |-> {"paid", "cancelled"},
    paid      |-> {"confirmed", "cancelled"},
    confirmed |-> {"preparing", "cancelled"},
    preparing |-> {"ready"},
    ready     |-> {"collected"},
    collected |-> {},
    cancelled |-> {} ]

OrdersWithKey(u, key) ==
  {i \in 1..Len(orders) : orders[i].userId = u /\ orders[i].idempotencyKey = key}

\* createOrder(userId, {couponCode, useWallet, idempotencyKey}) is called
CO_Call(p, u, key, useWallet, coupon) ==
  /\ pc[p] = "idle"
  /\ pc'  = [pc  EXCEPT ![p] = "co_idem"]
  /\ loc' = [loc EXCEPT ![p] = [IdleLoc EXCEPT !.op = "createOrder", !.user = u, !.key = key,
                                               !.useWallet = useWallet, !.coupon = coupon]]
  /\ ret' = [ret EXCEPT ![p] = NoRet]
  /\ UNCHANGED <<dbVars, tasks>>

\* the call, made while fewer than MaxOrders orders are placed or as a retry
CO_Start(p, u, key, useWallet, coupon) ==
  /\ \/ key # NoKey /\ OrdersWithKey(u, key) # {}
     \/ Len(orders) < MaxOrders
  /\ CO_Call(p, u, key, useWallet, coupon)

\* a createOrder that skips the lookup
IdempotentHit_Skipped(u, key) == NoOrder

\* the idempotency lookup: the order the retry is answered with, or none
IdempotentHit(u, key) ==
  IF key # NoKey /\ OrdersWithKey(u, key) # {} THEN SetMin(OrdersWithKey(u, key)) ELSE NoOrder

CO_Idem(p) ==
  /\ pc[p] = "co_idem"
  /\ LET existing == IdempotentHit(loc[p].user, loc[p].key) IN
     IF existing # NoOrder
       THEN Finish(p, OkRet("createOrder", existing))
       ELSE Goto(p, "co_cart", loc[p])
  /\ UNCHANGED <<dbVars, tasks>>

\* a check that lets a subtotal below the restaurant's minimum through
CartCheck_NoMinOrder(u) ==
  LET c == getCart(u) IN
  IF c.cart.id = NoCart \/ c.items = <<>> THEN "cart_empty"
  ELSE IF ~Restaurants[c.cart.restaurantId].isActive THEN "restaurant_inactive"
  ELSE IF ~Restaurants[c.cart.restaurantId].isOpen THEN "restaurant_closed"
  ELSE "ok"

\* the first check of createOrder's lines 63-78 that rejects, or "ok"
CartCheck(u) ==
  LET c == getCart(u) IN
  IF c.cart.id = NoCart \/ c.items = <<>> THEN "cart_empty"
  ELSE IF ~Restaurants[c.cart.restaurantId].isActive THEN "restaurant_inactive"
  ELSE IF ~Restaurants[c.cart.restaurantId].isOpen THEN "restaurant_closed"
  ELSE IF c.pricing.subtotal < Restaurants[c.cart.restaurantId].minOrder THEN "min_order"
  ELSE "ok"

FinalTotal(subtotal, totalDiscountAmount) == Max(0, subtotal - totalDiscountAmount)

AfterCart(l) ==
  IF l.coupon # NoCoupon THEN "co_coupon"
  ELSE IF l.useWallet THEN "co_wallet" ELSE "co_tx_order"

CO_Cart(p) ==
  /\ pc[p] = "co_cart"
  /\ LET u == loc[p].user
         c == getCart(u)
     IN  IF CartCheck(u) # "ok"
           THEN Finish(p, ErrRet("createOrder", CartCheck(u)))
           ELSE Goto(p, AfterCart(loc[p]),
                     [loc[p] EXCEPT !.cartId = c.cart.id, !.restaurantId = c.cart.restaurantId,
                                    !.items = c.items, !.subtotal = c.pricing.subtotal,
                                    !.discount = c.pricing.discountAmount,
                                    !.total = FinalTotal(c.pricing.subtotal, c.pricing.discountAmount)])
  /\ UNCHANGED <<dbVars, tasks>>

CO_Coupon(p) ==
  /\ pc[p] = "co_coupon"
  /\ LET l == loc[p]
         v == validateCoupon(l.coupon, l.user, l.subtotal)
         d == l.discount + CouponDiscount(Normalize(l.coupon), l.subtotal)
     IN  IF v # "ok"
           THEN Finish(p, ErrRet("createOrder", v))
           ELSE Goto(p, IF l.useWallet THEN "co_wallet" ELSE "co_tx_order",
                     [l EXCEPT !.discount = d, !.total = FinalTotal(l.subtotal, d)])
  /\ UNCHANGED <<dbVars, tasks>>

\* walletDebitAmount: the soft reservation
\* a reservation of the whole total whatever the balance
WalletDebitAmount_Whole(balance, finalTotal) == finalTotal

WalletDebitAmount(balance, finalTotal) == Max(0, Min(balance, finalTotal))

\* getOrCreateWallet(userId)
getOrCreateWallet(u) ==
  IF wallets[u].exists THEN wallets[u] ELSE [exists |-> TRUE, balance |-> 0]

CO_Wallet(p) ==
  /\ pc[p] = "co_wallet"
  /\ LET l == loc[p]
         w == getOrCreateWallet(l.user)
     IN  /\ wallets' = [wallets EXCEPT ![l.user] = w]
         /\ Goto(p, "co_tx_order", [l EXCEPT !.walletAmt = WalletDebitAmount(w.balance, l.total)])
  /\ UNCHANGED <<menuPrice, menuAvailable, variantLive, carts, orders, orderItems, walletTx, usedCount, couponUsage, tasks>>

\* an uncommitted INSERT of another transaction under the same (userId, key):
\* the unique index makes this INSERT wait for that transaction to end
PendingInsert(p) ==
  \E q \in Procs \ {p} :
    /\ pc[q] \in {"co_tx_items", "co_tx_del", "co_tx_commit"}
    /\ loc[q].user = loc[p].user /\ loc[q].key = loc[p].key

\* orders_idempotency_partial_idx: UNIQUE (user_id, idempotency_key) WHERE key IS NOT NULL
UniqueViolation(u, key) == key # NoKey /\ OrdersWithKey(u, key) # {}

CO_TxOrder(p) ==
  /\ pc[p] = "co_tx_order"
  /\ ~(loc[p].key # NoKey /\ PendingInsert(p))
  /\ IF UniqueViolation(loc[p].user, loc[p].key)
       THEN Finish(p, ErrRet("createOrder", "23505"))
       ELSE Goto(p, "co_tx_items", loc[p])
  /\ UNCHANGED <<dbVars, tasks>>

CO_TxItems(p) ==
  /\ pc[p] = "co_tx_items"
  /\ Goto(p, "co_tx_del", loc[p])
  /\ UNCHANGED <<dbVars, tasks>>

\* another open transaction has deleted the rows of the cart: a DELETE of the
\* same rows waits for it to end
CartLocked(p) ==
  \E q \in Procs \ {p} : pc[q] = "co_tx_commit" /\ loc[q].cartId = loc[p].cartId

CO_TxDel(p) ==
  /\ pc[p] = "co_tx_del"
  /\ ~CartLocked(p)
  /\ Goto(p, "co_tx_commit", loc[p])
  /\ UNCHANGED <<dbVars, tasks>>

\* the row of INSERT INTO orders
OrderRow(l) ==
  [ userId |-> l.user, restaurantId |-> l.restaurantId,
    status |-> "pending", paymentStatus |-> "pending",
    subtotal |-> l.subtotal, discountAmount |-> l.discount, totalAmount |-> l.total,
    couponCode |-> l.coupon, preparationTime |-> Restaurants[l.restaurantId].preparationTime,
    idempotencyKey |-> l.key, walletAmountUsed |-> l.walletAmt, razorpayOrderId |-> NoRzp ]

\* the rows of INSERT INTO order_items, one per cart line
OrderItemRows(orderId, items) ==
  [i \in 1..Len(items) |->
     [orderId |-> orderId, menuItemId |-> items[i].menuItemId, variantId |-> items[i].variantId,
      addOns |-> items[i].addOns, quantity |-> items[i].quantity,
      unitPrice |-> items[i].unitPrice, totalPrice |-> items[i].totalPrice]]

\* a COMMIT that leaves the cart in place
DeleteCart_Kept(cs, cartId) == cs

\* DELETE FROM cart_items / carts WHERE (cart_)id = cart.id
DeleteCart(cs, cartId) ==
  [u \in Users |-> IF cs[u].id = cartId THEN EmptyCart ELSE cs[u]]

\* a debit that asks for one paisa more than the order recorded
PostCommitTasks_Surcharge(l, orderId) ==
  (IF l.walletAmt > 0
     THEN {[kind |-> "debit", user |-> l.user, amount |-> l.walletAmt + 1, orderId |-> orderId,
            coupon |-> NoCoupon, pc |-> "start"]}
     ELSE {})
  \cup
  (IF l.coupon # NoCoupon
     THEN {[kind |-> "coupon", user |-> l.user, amount |-> 0, orderId |-> orderId,
            coupon |-> Normalize(l.coupon), pc |-> "start"]}
     ELSE {})

\* the promises createOrder starts after COMMIT
PostCommitTasks(l, orderId) ==
  (IF l.walletAmt > 0
     THEN {[kind |-> "debit", user |-> l.user, amount |-> l.walletAmt, orderId |-> orderId,
            coupon |-> NoCoupon, pc |-> "start"]}
     ELSE {})
  \cup
  (IF l.coupon # NoCoupon
     THEN {[kind |-> "coupon", user |-> l.user, amount |-> 0, orderId |-> orderId,
            coupon |-> Normalize(l.coupon), pc |-> "start"]}
     ELSE {})

CO_Commit(p) ==
  /\ pc[p] = "co_tx_commit"
  /\ LET l  == loc[p]
         id == Len(orders) + 1
     IN  /\ orders'     = Append(orders, OrderRow(l))
         /\ orderItems' = orderItems \o OrderItemRows(id, l.items)
         /\ carts'      = DeleteCart(carts, l.cartId)
         /\ tasks'      = tasks \cup PostCommitTasks(l, id)
         /\ Finish(p, OkRet("createOrder", id))
  /\ UNCHANGED <<menuPrice, menuAvailable, variantLive, wallets, walletTx, usedCount, couponUsage>>

\* ------------------------------------------------------- wallet ledger
MaxAddMoney == 5000000

\* a ledger row that books twice the amount
LedgerRow_Doubled(u, type, amount, referenceId, balanceAfter) ==
  [userId |-> u, type |-> type, amount |-> 2 * amount, referenceId |-> referenceId,
   balanceAfter |-> balanceAfter]

\* INSERT INTO wallet_transactions
LedgerRow(u, type, amount, referenceId, balanceAfter) ==
  [userId |-> u, type |-> type, amount |-> amount, referenceId |-> referenceId,
   balanceAfter |-> balanceAfter]

\* a credit that adds the amount twice
Credited_Twice(ws, u, amount) ==
  [ws EXCEPT ![u] = [exists |-> TRUE,
                     balance |-> (IF ws[u].exists THEN ws[u].balance ELSE 0) + 2 * amount]]

\* UPDATE wallets SET balance = balance + delta, after INSERT .. ON CONFLICT DO NOTHING
Credited(ws, u, amount) ==
  [ws EXCEPT ![u] = [exists |-> TRUE, balance |-> (IF ws[u].exists THEN ws[u].balance ELSE 0) + amount]]

AM_Call(p, u, amount) ==
  /\ pc[p] = "idle"
  /\ IF amount <= 0 \/ amount > MaxAddMoney
       THEN Finish(p, ErrRet("addMoney", "invalid_amount"))
       ELSE /\ pc'  = [pc  EXCEPT ![p] = "am_tx_update"]
            /\ loc' = [loc EXCEPT ![p] = [IdleLoc EXCEPT !.op = "addMoney", !.user = u, !.amount = amount]]
            /\ ret' = [ret EXCEPT ![p] = NoRet]
  /\ UNCHANGED <<dbVars, tasks>>

\* the call, made while fewer than MaxLedger rows are in the ledger
AM_Start(p, u, amount) ==
  /\ Len(walletTx) < MaxLedger
  /\ AM_Call(p, u, amount)

AM_TxUpdate(p) ==
  /\ pc[p] = "am_tx_update"
  /\ ~WalletLocked(loc[p].user)
  /\ Goto(p, "am_tx_commit", loc[p])
  /\ UNCHANGED <<dbVars, tasks>>

AM_Commit(p) ==
  /\ pc[p] = "am_tx_commit"
  /\ LET u == loc[p].user
         w == Credited(wallets, u, loc[p].amount)
     IN  /\ wallets'  = w
         /\ walletTx' = Append(walletTx, LedgerRow(u, "credit", loc[p].amount, NoOrder, w[u].balance))
  /\ Finish(p, OkRet("addMoney", NoOrder))
  /\ UNCHANGED <<menuPrice, menuAvailable, variantLive, carts, orders, orderItems, usedCount, couponUsage, tasks>>

\* debitWallet, started by createOrder after COMMIT and not awaited
DebitCheck(t) ==
  IF ~wallets[t.user].exists THEN "wallet_not_found"
  ELSE IF wallets[t.user].balance < t.amount THEN "insufficient"
  ELSE "ok"

DB_Lock(t) ==
  /\ t \in tasks /\ t.kind = "debit" /\ t.pc = "start"
  /\ ~WalletLocked(t.user)
  /\ tasks' = IF DebitCheck(t) = "ok"
                THEN (tasks \ {t}) \cup {[t EXCEPT !.pc = "locked"]}
                ELSE tasks \ {t}
  /\ UNCHANGED <<dbVars, pc, loc, ret>>

\* a debit that books no ledger row
DB_Commit_Silent(t) ==
  /\ t \in tasks /\ t.kind = "debit" /\ t.pc = "locked"
  /\ wallets' = [wallets EXCEPT ![t.user].balance = @ - t.amount]
  /\ tasks' = tasks \ {t}
  /\ UNCHANGED <<menuPrice, menuAvailable, variantLive, carts, orders, orderItems, walletTx, usedCount, couponUsage, pc, loc, ret>>

DB_Commit(t) ==
  /\ t \in tasks /\ t.kind = "debit" /\ t.pc = "locked"
  /\ LET b == wallets[t.user].balance - t.amount
     IN  /\ wallets'  = [wallets EXCEPT ![t.user].balance = b]
         /\ walletTx' = Append(walletTx, LedgerRow(t.user, "debit", t.amount, t.orderId, b))
  /\ tasks' = tasks \ {t}
  /\ UNCHANGED <<menuPrice, menuAvailable, variantLive, carts, orders, orderItems, usedCount, couponUsage, pc, loc, ret>>

\* recordCouponUsage, started by createOrder after COMMIT and not awaited:
\* two statements, no transaction
CU_Insert(t) ==
  /\ t \in tasks /\ t.kind = "coupon" /\ t.pc = "start"
  /\ couponUsage' = Append(couponUsage, [userId |-> t.user, couponId |-> t.coupon, orderId |-> t.orderId])
  /\ tasks' = (tasks \ {t}) \cup {[t EXCEPT !.pc = "inserted"]}
  /\ UNCHANGED <<menuPrice, menuAvailable, variantLive, carts, orders, orderItems, wallets, walletTx, usedCount, pc, loc, ret>>

CU_Update(t) ==
  /\ t \in tasks /\ t.kind = "coupon" /\ t.pc = "inserted"
  /\ usedCount' = [usedCount EXCEPT ![t.coupon] = @ + 1]
  /\ tasks' = tasks \ {t}
  /\ UNCHANGED <<menuPrice, menuAvailable, variantLive, carts, orders, orderItems, wallets, walletTx, couponUsage, pc, loc, ret>>

\* a failure of a promise that takes the order back
TaskFail_Undoing(t) ==
  /\ t \in tasks
  /\ tasks' = tasks \ {t}
  /\ orders' = [orders EXCEPT ![t.orderId].status = "cancelled"]
  /\ UNCHANGED <<menuPrice, menuAvailable, variantLive, carts, orderItems, wallets, walletTx, usedCount, couponUsage, pc, loc, ret>>

\* a statement of a promise fails: the rejection is logged by its .catch
TaskFail(t) ==
  /\ t \in tasks
  /\ tasks' = tasks \ {t}
  /\ UNCHANGED <<dbVars, pc, loc, ret>>

\* ---------------------------------------------------------- cancelOrder
FindOrder(o) == o \in 1..Len(orders)

\* a cancel that is still open once the restaurant has confirmed
cancellable_Wide == {"pending", "paid", "confirmed"}

cancellable == {"pending", "paid"}

\* lines 402-416: the error thrown, or "ok"
CancelCheck(o, u) ==
  IF ~FindOrder(o) \/ orders[o].userId # u THEN "not_found"
  ELSE IF orders[o].status \notin cancellable THEN "not_cancellable"
  ELSE "ok"

\* the call up to its SELECT and checks
CA_Read(p, o, u) ==
  /\ pc[p] = "idle"
  /\ IF CancelCheck(o, u) # "ok"
       THEN Finish(p, ErrRet("cancelOrder", CancelCheck(o, u)))
       ELSE /\ pc'  = [pc  EXCEPT ![p] = "ca_tx_update"]
            /\ loc' = [loc EXCEPT ![p] =
                         [IdleLoc EXCEPT !.op = "cancelOrder", !.user = u, !.orderId = o,
                                         !.readStatus = orders[o].status,
                                         !.amount = orders[o].walletAmountUsed]]
            /\ ret' = [ret EXCEPT ![p] = NoRet]
  /\ UNCHANGED <<dbVars, tasks>>

CA_TxUpdate(p) ==
  /\ pc[p] = "ca_tx_update"
  /\ ~OrderLocked(loc[p].orderId)
  /\ Goto(p, IF loc[p].amount > 0 THEN "ca_tx_refund" ELSE "ca_tx_commit", loc[p])
  /\ UNCHANGED <<dbVars, tasks>>

CA_TxRefund(p) ==
  /\ pc[p] = "ca_tx_refund"
  /\ ~WalletLocked(loc[p].user)
  /\ Goto(p, "ca_tx_commit", loc[p])
  /\ UNCHANGED <<dbVars, tasks>>

\* a cancellation that also clears the wallet amount it refunded
CancelledOrders_Zeroed(os, o) ==
  [os EXCEPT ![o].status = "cancelled", ![o].walletAmountUsed = 0]

\* what cancelOrder's COMMIT makes visible
CancelledOrders(os, o) == [os EXCEPT ![o].status = "cancelled"]

CA_Commit(p) ==
  /\ pc[p] = "ca_tx_commit"
  /\ LET o == loc[p].orderId
         u == loc[p].user
         w == Credited(wallets, u, loc[p].amount)
     IN  /\ orders' = CancelledOrders(orders, o)
         /\ IF loc[p].amount > 0
              THEN /\ wallets'  = w
                   /\ walletTx' = Append(walletTx, LedgerRow(u, "credit", loc[p].amount, o, w[u].balance))
              ELSE UNCHANGED <<wallets, walletTx>>
         /\ Finish(p, OkRet("cancelOrder", o))
  /\ UNCHANGED <<menuPrice, menuAvailable, variantLive, carts, orderItems, usedCount, couponUsage, tasks>>

\* a statement inside an open transaction fails: catch -> ROLLBACK -> throw
TxLabels == {"co_tx_order", "co_tx_items", "co_tx_del", "co_tx_commit",
             "ca_tx_update", "ca_tx_refund", "ca_tx_commit",
             "am_tx_update", "am_tx_commit"}

\* a failure after cancelOrder's status UPDATE that keeps that UPDATE
Fail_Partial(p) ==
  /\ pc[p] \in TxLabels
  /\ Finish(p, ErrRet(loc[p].op, "rolled_back"))
  /\ IF pc[p] \in {"ca_tx_refund", "ca_tx_commit"}
       THEN /\ orders' = CancelledOrders(orders, loc[p].orderId)
            /\ UNCHANGED <<menuPrice, menuAvailable, variantLive, carts, orderItems, wallets, walletTx, usedCount, couponUsage>>
       ELSE UNCHANGED dbVars
  /\ UNCHANGED tasks

\* a rollback of createOrder that still starts the debit and the redemption
Fail_Charging(p) ==
  /\ pc[p] \in TxLabels
  /\ Finish(p, ErrRet(loc[p].op, "rolled_back"))
  /\ tasks' = tasks \cup PostCommitTasks(loc[p], Len(orders) + 1)
  /\ UNCHANGED dbVars

Fail(p) ==
  /\ pc[p] \in TxLabels
  /\ Finish(p, ErrRet(loc[p].op, "rolled_back"))
  /\ UNCHANGED <<dbVars, tasks>>

\* ------------------------------------------------ order status machine
Statuses == {"pending", "paid", "confirmed", "preparing", "ready", "collected", "cancelled"}

\* updateOrderStatus lines 466-478: the error thrown, or "ok"
AdminCheck(o, newStatus) ==
  IF ~FindOrder(o) THEN "not_found"
  ELSE IF newStatus \notin STATE_TRANSITIONS[orders[o].status] THEN "invalid_transition"
  ELSE "ok"

\* the call up to its SELECT and checks
UOS_Read(p, o, newStatus, preparationTime) ==
  /\ pc[p] = "idle"
  /\ IF AdminCheck(o, newStatus) # "ok"
       THEN Finish(p, ErrRet("updateOrderStatus", AdminCheck(o, newStatus)))
       ELSE /\ pc'  = [pc  EXCEPT ![p] = "uos_write"]
            /\ loc' = [loc EXCEPT ![p] =
                         [IdleLoc EXCEPT !.op = "updateOrderStatus", !.orderId = o,
                                         !.newStatus = newStatus, !.prep = preparationTime,
                                         !.readStatus = orders[o].status]]
            /\ ret' = [ret EXCEPT ![p] = NoRet]
  /\ UNCHANGED <<dbVars, tasks>>

\* db.update(orders).set(updateData)
AdminUpdate(row, newStatus, preparationTime) ==
  [row EXCEPT !.status = newStatus,
              !.preparationTime = IF preparationTime # NoPrep THEN preparationTime ELSE @]

UOS_Write(p) ==
  /\ pc[p] = "uos_write"
  /\ ~OrderLocked(loc[p].orderId)
  /\ orders' = [orders EXCEPT ![loc[p].orderId] = AdminUpdate(@, loc[p].newStatus, loc[p].prep)]
  /\ Finish(p, OkRet("updateOrderStatus", loc[p].orderId))
  /\ UNCHANGED <<menuPrice, menuAvailable, variantLive, carts, orderItems, wallets, walletTx, usedCount, couponUsage, tasks>>

\* an owner table that lets the owner cancel a pending order
OWNER_TRANSITIONS_Loose ==
  [ pending   |-> {"confirmed", "cancelled"},
    confirmed |-> {"preparing"},
    preparing |-> {"ready"},
    ready     |-> {"collected"} ]

OWNER_TRANSITIONS ==
  [ pending   |-> {"confirmed"},
    confirmed |-> {"preparing"},
    preparing |-> {"ready"},
    ready     |-> {"collected"} ]

OwnerAllowed(status) ==
  IF status \in DOMAIN OWNER_TRANSITIONS THEN OWNER_TRANSITIONS[status] ELSE {}

\* getOwnedRestaurant(ownerId)
getOwnedRestaurant(w) == CHOOSE r \in DOMAIN Restaurants : Restaurants[r].ownerId = w

\* PATCH /owner/order/:id/status, lines 784-816: the error thrown, or "ok"
OwnerCheck(w, o, newStatus, preparationTime) ==
  IF ~FindOrder(o) \/ orders[o].restaurantId # getOwnedRestaurant(w) THEN "forbidden"
  ELSE IF newStatus \notin OwnerAllowed(orders[o].status) THEN "invalid_transition"
  ELSE IF preparationTime # NoPrep /\ newStatus = "confirmed" /\ preparationTime < 1 THEN "bad_preparation_time"
  ELSE "ok"

\* the call up to its SELECT and checks
OWN_Read(p, w, o, newStatus, preparationTime) ==
  /\ pc[p] = "idle"
  /\ LET c == OwnerCheck(w, o, newStatus, preparationTime)
     IN  IF c # "ok"
           THEN Finish(p, ErrRet("ownerStatus", c))
           ELSE /\ pc'  = [pc  EXCEPT ![p] = "own_write"]
                /\ loc' = [loc EXCEPT ![p] =
                             [IdleLoc EXCEPT !.op = "ownerStatus", !.owner = w, !.orderId = o,
                                             !.newStatus = newStatus, !.prep = preparationTime,
                                             !.readStatus = orders[o].status]]
                /\ ret' = [ret EXCEPT ![p] = NoRet]
  /\ UNCHANGED <<dbVars, tasks>>

OwnerUpdate(row, newStatus, preparationTime) ==
  [row EXCEPT !.status = newStatus,
              !.preparationTime = IF preparationTime # NoPrep /\ newStatus = "confirmed"
                                    THEN preparationTime ELSE @]

OWN_Write(p) ==
  /\ pc[p] = "own_write"
  /\ ~OrderLocked(loc[p].orderId)
  /\ orders' = [orders EXCEPT ![loc[p].orderId] = OwnerUpdate(@, loc[p].newStatus, loc[p].prep)]
  /\ Finish(p, OkRet("ownerStatus", loc[p].orderId))
  /\ UNCHANGED <<menuPrice, menuAvailable, variantLive, carts, orderItems, wallets, walletTx, usedCount, couponUsage, tasks>>

\* PUT /owner/menu-item/:id { basePrice }: the owner reprices an item of the
\* own restaurant
UpdateMenuItem(w, m, price) ==
  /\ MenuItems[m].restaurantId = getOwnedRestaurant(w)
  /\ menuPrice[m] # price
  /\ menuPrice' = [menuPrice EXCEPT ![m] = price]
  /\ UNCHANGED <<menuAvailable, variantLive>>
  /\ UNCHANGED <<carts, orders, orderItems, wallets, walletTx, usedCount, couponUsage,
                  pc, loc, ret, tasks>>

\* PUT /owner/menu-item/:id { isAvailable }: the owner withdraws or restores an
\* item of the own restaurant
SetAvailability(w, m, b) ==
  /\ MenuItems[m].restaurantId = getOwnedRestaurant(w)
  /\ menuAvailable[m] # b
  /\ menuAvailable' = [menuAvailable EXCEPT ![m] = b]
  /\ UNCHANGED <<menuPrice, variantLive>>
  /\ UNCHANGED <<carts, orders, orderItems, wallets, walletTx, usedCount, couponUsage,
                  pc, loc, ret, tasks>>

\* cart_items.variant_id references menu_item_variants ON DELETE SET NULL
VariantSetNull(cart, gone) ==
  [cart EXCEPT !.lines = [i \in 1..Len(cart.lines) |->
     IF cart.lines[i].variantId \in gone
       THEN [cart.lines[i] EXCEPT !.variantId = NoVariant]
       ELSE cart.lines[i]]]

\* updateMenuItem(id, { variants: [] }): the item's variant rows are deleted
updateMenuItem(m) ==
  LET gone == {v \in VariantIds : Variants[v].menuItemId = m /\ variantLive[v]}
  IN  /\ gone # {}
      /\ variantLive' = [v \in VariantIds |-> variantLive[v] /\ v \notin gone]
      /\ carts' = [u \in Users |-> VariantSetNull(carts[u], gone)]
      /\ UNCHANGED <<menuPrice, menuAvailable>>
      /\ UNCHANGED <<orders, orderItems, wallets, walletTx, usedCount, couponUsage,
                      pc, loc, ret, tasks>>

\* ------------------------------------------------------------ reorder
\* the order_items rows of an order
PastItems(o) == SelectSeq(orderItems, LAMBDA r : r.orderId = o)

\* reorderFromPastOrder lines 294-308: the error thrown before the loop, or "ok"
ReorderCheck(o, u) ==
  IF ~FindOrder(o) \/ orders[o].userId # u THEN "not_found"
  ELSE IF PastItems(o) = <<>> THEN "no_items"
  ELSE IF ~Restaurants[orders[o].restaurantId].isActive THEN "restaurant_closed"
  ELSE "ok"

\* reorderFromPastOrder(orderId, userId) up to the availability map, which is
\* read once before the loop
RO_Read(p, o, u) ==
  /\ pc[p] = "idle"
  /\ IF ReorderCheck(o, u) # "ok"
       THEN Finish(p, ErrRet("reorder", ReorderCheck(o, u)))
       ELSE /\ pc'  = [pc  EXCEPT ![p] = "ro_line"]
            /\ loc' = [loc EXCEPT ![p] =
                 [IdleLoc EXCEPT !.op = "reorder", !.user = u, !.orderId = o, !.idx = 1,
                                 !.avail = {m \in MenuItemIds : menuAvailable[m]}]]
            /\ ret' = [ret EXCEPT ![p] = NoRet]
  /\ UNCHANGED <<menuPrice, menuAvailable, variantLive, carts, orders, orderItems, wallets, walletTx, usedCount, couponUsage, tasks>>

\* the variant of the item that carries the stored name, or null
ResolveVariant(menuItemId, variantName) ==
  IF /\ variantName # NoVariant
     /\ variantLive[variantName]
     /\ Variants[variantName].menuItemId = menuItemId
    THEN variantName
    ELSE NoVariant

\* the ids of the stored add-on snapshot that are still available add-ons
ResolveAddOns(stored) == SetToSeq({a.addOnId : a \in stored} \cap AddOnIds)

\* the loop goes on with the next past line, or the summary is returned
RO_Next(p, l) ==
  IF l.idx > Len(PastItems(l.orderId))
    THEN Finish(p, ReorderRet(l.added, l.skipped))
    ELSE Goto(p, "ro_line", l)

\* one turn of the loop of reorderFromPastOrder, lines 323-385
RO_Line(p) ==
  /\ pc[p] = "ro_line"
  /\ LET l    == loc[p]
         k    == l.idx
         past == PastItems(l.orderId)[k]
         skip == [l EXCEPT !.idx = k + 1, !.skipped = Append(@, k)]
         c    == AddToCartCheck(l.user, past.menuItemId)
     IN  IF past.menuItemId \notin l.avail
           THEN /\ carts' = carts
                /\ RO_Next(p, skip)
         ELSE IF c = "other_restaurant"
           THEN /\ carts' = carts
                /\ Finish(p, ErrRet("reorder", c))
         ELSE IF c # "ok"
           THEN /\ carts' = carts
                /\ RO_Next(p, skip)
         ELSE /\ addToCart(l.user, past.menuItemId,
                           ResolveVariant(past.menuItemId, past.variantId),
                           ResolveAddOns(past.addOns), past.quantity)
              /\ RO_Next(p, [l EXCEPT !.idx = k + 1, !.added = Append(@, k)])
  /\ UNCHANGED <<menuPrice, menuAvailable, variantLive, orders, orderItems, wallets, walletTx, usedCount, couponUsage, tasks>>

\* ------------------------------------------------------------ payments
\* ids the gateway issues: one no order row and no running request holds
FreshRzp ==
  SetMin({i \in 1..(Len(orders) + Cardinality(Procs) + 1) :
            /\ \A o \in 1..Len(orders) : orders[o].razorpayOrderId # i
            /\ \A q \in Procs : loc[q].rzp # i})

\* createPaymentOrder lines 19-30: the error thrown, or "ok"
PaymentOrderCheck(u, o) ==
  IF ~FindOrder(o) THEN "not_found"
  ELSE IF orders[o].userId # u THEN "unauthorized"
  ELSE IF orders[o].status = "cancelled" THEN "cancelled"
  ELSE IF orders[o].paymentStatus = "paid" THEN "already_paid"
  ELSE "ok"

\* amountInPaise: what createPaymentOrder asks the gateway to collect for the order
amountInPaise(row) == row.totalAmount

\* stillOpen: what razorpay.orders.fetch says of the stored gateway order
CP_Read(p, u, o, stillOpen) ==
  /\ pc[p] = "idle"
  /\ LET c == PaymentOrderCheck(u, o)
     IN  IF c # "ok"
           THEN Finish(p, ErrRet("createPaymentOrder", c))
           ELSE IF orders[o].razorpayOrderId # NoRzp /\ stillOpen
             THEN Finish(p, OkRet("createPaymentOrder", o))
             ELSE /\ pc'  = [pc  EXCEPT ![p] = "cp_write"]
                  /\ loc' = [loc EXCEPT ![p] =
                               [IdleLoc EXCEPT !.op = "createPaymentOrder", !.user = u,
                                               !.orderId = o, !.rzp = FreshRzp]]
                  /\ ret' = [ret EXCEPT ![p] = NoRet]
  /\ UNCHANGED <<dbVars, tasks>>

CP_Write(p) ==
  /\ pc[p] = "cp_write"
  /\ ~OrderLocked(loc[p].orderId)
  /\ orders' = [orders EXCEPT ![loc[p].orderId].razorpayOrderId = loc[p].rzp]
  /\ Finish(p, OkRet("createPaymentOrder", loc[p].orderId))
  /\ UNCHANGED <<menuPrice, menuAvailable, variantLive, carts, orderItems, wallets, walletTx, usedCount, couponUsage, tasks>>

\* a verification without the double-payment guard
VerifyCheck_Repeatable(u, o, razorpayOrderId, signatureOk) ==
  IF ~signatureOk THEN "signature_mismatch"
  ELSE IF ~FindOrder(o) THEN "not_found"
  ELSE IF orders[o].userId # u THEN "unauthorized"
  ELSE IF orders[o].razorpayOrderId # razorpayOrderId THEN "order_id_mismatch"
  ELSE "ok"

\* verifyPayment lines 92-121: the error thrown, or "ok"
VerifyCheck(u, o, razorpayOrderId, signatureOk) ==
  IF ~signatureOk THEN "signature_mismatch"
  ELSE IF ~FindOrder(o) THEN "not_found"
  ELSE IF orders[o].userId # u THEN "unauthorized"
  ELSE IF orders[o].paymentStatus = "paid" THEN "already_paid"
  ELSE IF orders[o].razorpayOrderId # razorpayOrderId THEN "order_id_mismatch"
  ELSE "ok"

\* the call up to its SELECT and checks
VP_Read(p, u, o, razorpayOrderId, signatureOk) ==
  /\ pc[p] = "idle"
  /\ LET c == VerifyCheck(u, o, razorpayOrderId, signatureOk) IN
     IF c # "ok"
       THEN Finish(p, ErrRet("verifyPayment", c))
       ELSE /\ pc'  = [pc  EXCEPT ![p] = "vp_write"]
            /\ loc' = [loc EXCEPT ![p] =
                         [IdleLoc EXCEPT !.op = "verifyPayment", !.user = u, !.orderId = o,
                                         !.rzp = razorpayOrderId,
                                         !.readStatus = orders[o].status]]
            /\ ret' = [ret EXCEPT ![p] = NoRet]
  /\ UNCHANGED <<dbVars, tasks>>

\* .set({ status: 'paid', paymentStatus: 'paid', ... })
MarkPaid(row) == [row EXCEPT !.status = "paid", !.paymentStatus = "paid"]

VP_Write(p) ==
  /\ pc[p] = "vp_write"
  /\ ~OrderLocked(loc[p].orderId)
  /\ orders' = [orders EXCEPT ![loc[p].orderId] = MarkPaid(@)]
  /\ Finish(p, OkRet("verifyPayment", loc[p].orderId))
  /\ UNCHANGED <<menuPrice, menuAvailable, variantLive, carts, orderItems, wallets, walletTx, usedCount, couponUsage, tasks>>

\* handleWebhook, event payment.failed for gateway order r
Webhook(r) ==
  /\ \E o \in 1..Len(orders) : orders[o].razorpayOrderId = r /\ orders[o].paymentStatus # "failed"
  /\ \A o \in 1..Len(orders) : orders[o].razorpayOrderId = r => ~OrderLocked(o)
  /\ orders' = [o \in 1..Len(orders) |->
                  IF orders[o].razorpayOrderId = r
                    THEN [orders[o] EXCEPT !.paymentStatus = "failed"] ELSE orders[o]]
  /\ UNCHANGED <<menuPrice, menuAvailable, variantLive, carts, orderItems, wallets, walletTx, usedCount, couponUsage, pc, loc, ret, tasks>>

\* ------------------------------------------------------ specifications
\* inputs the requests are drawn from
Shoppers    == {"u1"}
Keys        == {NoKey, "k1"}
CouponInput == {NoCoupon, "SAVE10", "BIG"}
AddAmounts  == {20000}
Quantities  == {1, 2}
OrderIds    == 1..(Len(orders) + 1)
RzpInput    == {1, 2}

\* subtotals sent to the validate endpoint, in paise
SubtotalInput == {5000, 12344, 16000}

CartItems   == {"m1"}
VariantInput == {NoVariant, "v1"}

\* units in the user's cart
CartQty(u) == SumSeq(SeqMap(LAMBDA l : l.quantity, carts[u].lines))

AddToCart == \E u \in Shoppers, m \in CartItems, v \in VariantInput, q \in Quantities :
  /\ CartQty(u) + q <= MaxQty
  /\ addToCart(u, m, v, <<>>, q)
  /\ UNCHANGED <<menuPrice, menuAvailable, variantLive, orders, orderItems, wallets, walletTx, usedCount, couponUsage, pc, loc, ret, tasks>>

AddPlain == \E u \in Shoppers, m \in CartItems, q \in Quantities :
  /\ CartQty(u) + q <= MaxQty
  /\ addToCart(u, m, NoVariant, <<>>, q)
  /\ UNCHANGED <<menuPrice, menuAvailable, variantLive, orders, orderItems, wallets, walletTx, usedCount, couponUsage, pc, loc, ret, tasks>>

ClearCart == \E u \in Shoppers :
  /\ clearCart(u)
  /\ UNCHANGED <<menuPrice, menuAvailable, variantLive, orders, orderItems, wallets, walletTx, usedCount, couponUsage, pc, loc, ret, tasks>>

StartAddMoney(p) == \E u \in Shoppers, a \in AddAmounts : AM_Start(p, u, a)

\* the refunds booked so far
Refunds == {i \in 1..Len(walletTx) : walletTx[i].type = "credit" /\ walletTx[i].referenceId # NoOrder}

StartCancel(p) == \E o \in OrderIds, u \in Users :
  /\ Cardinality(Refunds) < MaxRefunds
  /\ CA_Read(p, o, u)

StartAdmin(p) == \E o \in OrderIds, st \in Statuses : UOS_Read(p, o, st, NoPrep)

StartOwner(p) == \E w \in Owners, o \in OrderIds, st \in Statuses : OWN_Read(p, w, o, st, NoPrep)

StartPaymentOrder(p) ==
  \E u \in Users, o \in OrderIds, open \in BOOLEAN : CP_Read(p, u, o, open)

StartVerify(p) ==
  \E u \in Users, o \in OrderIds, r \in RzpInput, sig \in BOOLEAN : VP_Read(p, u, o, r, sig)

PaymentFailed == \E r \in RzpInput : Webhook(r)

\* the statements every createOrder runs
CheckoutStep(p) ==
  \/ CO_Idem(p) \/ CO_Cart(p)
  \/ CO_TxOrder(p) \/ CO_TxItems(p) \/ CO_TxDel(p) \/ CO_Commit(p)

\* with those a couponCode or useWallet adds
CreateOrderStep(p) == CheckoutStep(p) \/ CO_Coupon(p) \/ CO_Wallet(p)

AddMoneyStep(p) == AM_TxUpdate(p) \/ AM_Commit(p)

CancelStep(p) == CA_TxUpdate(p) \/ CA_TxRefund(p) \/ CA_Commit(p)

AdminStep(p) == UOS_Write(p)

OwnerStep(p) == OWN_Write(p)

PaymentStep(p) == CP_Write(p) \/ VP_Write(p)

TaskStep ==
  \E t \in tasks : DB_Lock(t) \/ DB_Commit(t) \/ CU_Insert(t) \/ CU_Update(t) \/ TaskFail(t)

\* checkout with idempotency keys over carts of several lines, one request at
\* a time; no wallet is ever topped up, so createOrder leaves no promise running
Checkout(p) == \E u \in Shoppers, k \in Keys, w \in BOOLEAN : CO_Start(p, u, k, w, NoCoupon)

Next ==
  \/ AddToCart \/ ClearCart
  \/ Checkout(1)
  \/ CheckoutStep(1) \/ CO_Wallet(1) \/ Fail(1)

Spec == Init /\ [][Next]_vars

\* checkout with coupons
CouponCheckout(p) ==
  \E u \in Shoppers, w \in BOOLEAN, c \in CouponInput : CO_Start(p, u, NoKey, w, c)

NextCoupon ==
  \/ AddPlain
  \/ CouponCheckout(1) \/ StartAddMoney(1)
  \/ CreateOrderStep(1) \/ AddMoneyStep(1) \/ Fail(1)
  \/ TaskStep

SpecCoupon == Init /\ [][NextCoupon]_vars

\* cancellation: orders placed without coupon, then cancelled by either user
PlaceOrder(p) == \E u \in Shoppers, w \in BOOLEAN : CO_Start(p, u, NoKey, w, NoCoupon)

NextCancel ==
  \/ AddPlain
  \/ PlaceOrder(1) \/ StartAddMoney(1) \/ StartCancel(1)
  \/ CheckoutStep(1) \/ CO_Wallet(1) \/ AddMoneyStep(1) \/ CancelStep(1) \/ Fail(1)
  \/ TaskStep

SpecCancel == Init /\ [][NextCancel]_vars

\* the status machine, followed from the state in which u1 has topped up the
\* wallet, checked out two units of m1 paying from the wallet, and the debit
\* has been booked; the order is then moved by the admin, the restaurant
\* owner, the customer's cancel and the payment flow
PlacedCart ==
  [id |-> 1, restaurantId |-> "r1",
   lines |-> <<[menuItemId |-> "m1", variantId |-> NoVariant,
                addOns |-> AddOnSnapshot("m1", <<>>), quantity |-> 2]>>]

PlacedTopUp == CHOOSE a \in AddAmounts : TRUE

PlacedRequest ==
  LET items    == _getCartItemsWithDetails(PlacedCart)
      subtotal == _calculatePricing(items).subtotal
  IN  [IdleLoc EXCEPT !.op = "createOrder", !.user = "u1", !.useWallet = TRUE,
                      !.cartId = PlacedCart.id, !.restaurantId = PlacedCart.restaurantId,
                      !.items = items, !.subtotal = subtotal,
                      !.total = FinalTotal(subtotal, 0),
                      !.walletAmt = WalletDebitAmount(PlacedTopUp, FinalTotal(subtotal, 0))]

\* the tables of the placed state
PlacedTables ==
  /\ menuPrice   = [m \in MenuItemIds |-> MenuItems[m].basePrice]
  /\ menuAvailable = [m \in MenuItemIds |-> MenuItems[m].isAvailable]
  /\ variantLive = [v \in VariantIds |-> TRUE]
  /\ carts       = [u \in Users |-> EmptyCart]
  /\ orders      = <<OrderRow(PlacedRequest)>>
  /\ orderItems  = OrderItemRows(1, PlacedRequest.items)
  /\ wallets     = [u \in Users |->
                      IF u = "u1"
                        THEN [exists |-> TRUE, balance |-> PlacedTopUp - PlacedRequest.walletAmt]
                        ELSE NoWallet]
  /\ walletTx    = << LedgerRow("u1", "credit", PlacedTopUp, NoOrder, PlacedTopUp),
                      LedgerRow("u1", "debit", PlacedRequest.walletAmt, 1,
                                PlacedTopUp - PlacedRequest.walletAmt) >>
  /\ usedCount   = [c \in CouponCodes |-> 0]
  /\ couponUsage = <<>>
  /\ tasks       = {}

\* reached from Init under SpecCancel: addMoney, addToCart, createOrder with
\* useWallet, debitWallet
InitStatus ==
  /\ PlacedTables
  /\ pc          = [p \in Procs |-> "idle"]
  /\ loc         = [p \in Procs |-> IdleLoc]
  /\ ret         = [p \in Procs |-> NoRet]

NextStatus ==
  \/ StartAdmin(1) \/ StartOwner(1) \/ StartCancel(1)
  \/ StartPaymentOrder(1) \/ StartVerify(1) \/ PaymentFailed
  \/ AdminStep(1) \/ OwnerStep(1) \/ CancelStep(1) \/ PaymentStep(1)
  \/ Fail(1)

SpecStatus == InitStatus /\ [][NextStatus]_vars

\* two concurrent checkouts of the same user under the same idempotency key
KeyedCheckout(p) == \E u \in Shoppers, k \in Keys \ {NoKey} : CO_Start(p, u, k, FALSE, NoCoupon)

NextConc ==
  \/ AddPlain
  \/ \E p \in Procs : KeyedCheckout(p) \/ CheckoutStep(p)

SpecConc == Init /\ [][NextConc]_vars

\* the promises of debitWallet alone
DebitStep == \E t \in tasks : DB_Lock(t) \/ DB_Commit(t) \/ TaskFail(t)

\* one wallet under concurrent debits, top-ups and refunds: u1 checks out
\* twice paying from the wallet, so that the debits of both orders can be
\* pending at once, while the second slot tops up and cancels
WalletCheckout(p) == \E u \in Shoppers :
  /\ Len(orders) < MaxPlaced
  /\ CO_Call(p, u, NoKey, TRUE, NoCoupon)

\* the cart that meets r1's minimum order
AddPair == \E u \in Shoppers, m \in CartItems, q \in {MaxQty} :
  /\ CartQty(u) + q <= MaxQty
  /\ addToCart(u, m, NoVariant, <<>>, q)
  /\ UNCHANGED <<menuPrice, menuAvailable, variantLive, orders, orderItems, wallets, walletTx, usedCount, couponUsage, pc, loc, ret, tasks>>

\* the customer cancels one of the orders placed
CancelOwn(p) == \E u \in Shoppers, o \in 1..Len(orders) :
  /\ Cardinality(Refunds) < MaxRefunds
  /\ CA_Read(p, o, u)

NextWallet ==
  \/ AddPair
  \/ WalletCheckout(1) \/ StartAddMoney(2) \/ CancelOwn(2)
  \/ CheckoutStep(1) \/ CO_Wallet(1) \/ AddMoneyStep(2) \/ CancelStep(2)
  \/ DebitStep

SpecWallet == Init /\ [][NextWallet]_vars

\* checkout under an idempotency key, paid from the wallet, with or without a
\* coupon, retried by either slot while the first call or its promises run
CouponOrNone == {NoCoupon, "SAVE10"}

ChargedCheckout(p) ==
  \E u \in Shoppers, k \in Keys \ {NoKey}, c \in CouponOrNone : CO_Start(p, u, k, TRUE, c)

NextCharge ==
  \/ AddPair
  \/ StartAddMoney(2) \/ AddMoneyStep(2)
  \/ \E p \in Procs : ChargedCheckout(p) \/ CreateOrderStep(p)
  \/ TaskStep

SpecCharge == Init /\ [][NextCharge]_vars

\* the promises of recordCouponUsage alone
RedeemStep == \E t \in tasks : CU_Insert(t) \/ CU_Update(t) \/ TaskFail(t)

\* the coupon of one redemption per user: u1 checks out with it, again while
\* or after the first order's redemption is recorded, cancels, and asks the
\* validate endpoint
OnceCoupons == {c \in CouponCodes : Coupons[c].perUserLimit = 1 /\ Coupons[c].minOrder = 0}

RedeemCheckout(p) == \E u \in Shoppers, c \in OnceCoupons :
  /\ Len(orders) < MaxPlaced
  /\ CO_Call(p, u, NoKey, FALSE, c)

AskValidate(p) == \E u \in Shoppers, c \in OnceCoupons, a \in SubtotalInput : VC_Call(p, u, c, a)

\* cancelOrder's statements for an order not paid from the wallet
CancelUnpaidStep(p) == CA_TxUpdate(p) \/ CA_Commit(p)

NextRedeem ==
  \/ AddPair
  \/ RedeemCheckout(1) \/ CancelOwn(2) \/ AskValidate(2)
  \/ CheckoutStep(1) \/ CO_Coupon(1) \/ CancelUnpaidStep(2) \/ VC_Read(2)
  \/ RedeemStep

SpecRedeem == Init /\ [][NextRedeem]_vars

\* the validate endpoint asked by both users with every kind of code while
\* u1 redeems the coupon with a usage limit
CodeInput == CouponCodes \cup {"save10", " few ", "Old", "NOPE", "", " "}

LimitedCoupons == {c \in CouponCodes : Coupons[c].usageLimit > 0}

LimitedCheckout(p) == \E u \in Shoppers, c \in LimitedCoupons : CO_Start(p, u, NoKey, FALSE, c)

Validate(p) == \E u \in Users, c \in CodeInput, a \in SubtotalInput : VC_Call(p, u, c, a)

NextValidate ==
  \/ AddPair
  \/ LimitedCheckout(1) \/ Validate(2)
  \/ CheckoutStep(1) \/ CO_Coupon(1) \/ VC_Read(2)
  \/ RedeemStep

SpecValidate == Init /\ [][NextValidate]_vars

\* checkouts that are rejected, among ones that succeed: carts of every
\* restaurant (open, inactive, closed; below and above the minimum order),
\* no cart, and coupons that pass or fail, with and without the wallet
RejectItems == {m \in MenuItemIds : Restaurants[MenuItems[m].restaurantId].minOrder > 0
                                     \/ ~Restaurants[MenuItems[m].restaurantId].isActive
                                     \/ ~Restaurants[MenuItems[m].restaurantId].isOpen}

AddAny == \E u \in Shoppers, m \in RejectItems, q \in Quantities :
  /\ CartQty(u) + q <= MaxQty
  /\ addToCart(u, m, NoVariant, <<>>, q)
  /\ UNCHANGED <<menuPrice, menuAvailable, variantLive, orders, orderItems, wallets, walletTx, usedCount, couponUsage, pc, loc, ret, tasks>>

CheckoutCoupons == {NoCoupon, "SAVE10", "OLD"}

AnyCheckout(p) ==
  \E u \in Shoppers, w \in BOOLEAN, c \in CheckoutCoupons : CO_Start(p, u, NoKey, w, c)

NextReject ==
  \/ AddAny \/ ClearCart
  \/ AnyCheckout(1)
  \/ CreateOrderStep(1)
  \/ TaskStep

\* u1 has topped up once (addMoney), u2 never
FundedTables ==
  /\ carts       = [u \in Users |-> EmptyCart]
  /\ orders      = <<>>
  /\ orderItems  = <<>>
  /\ wallets     = Credited([u \in Users |-> NoWallet], "u1", PlacedTopUp)
  /\ walletTx    = << LedgerRow("u1", "credit", PlacedTopUp, NoOrder, PlacedTopUp) >>
  /\ menuPrice   = [m \in MenuItemIds |-> MenuItems[m].basePrice]
  /\ menuAvailable = [m \in MenuItemIds |-> MenuItems[m].isAvailable]
  /\ variantLive = [v \in VariantIds |-> TRUE]
  /\ usedCount   = [c \in CouponCodes |-> 0]
  /\ couponUsage = <<>>
  /\ tasks       = {}

InitReject ==
  /\ FundedTables
  /\ pc          = [p \in Procs |-> "idle"]
  /\ loc         = [p \in Procs |-> IdleLoc]
  /\ ret         = [p \in Procs |-> NoRet]

SpecReject == InitReject /\ [][NextReject]_vars

\* the placed order while the owner reprices the item it holds, the customer
\* fills a new cart, and owner, customer and payment flow move the order
PriceInput == {MenuItems[m].basePrice : m \in MenuItemIds}

Reprice == \E w \in Owners, m \in CartItems, price \in PriceInput : UpdateMenuItem(w, m, price)

NextSnapshot ==
  \/ Reprice \/ AddPlain \/ ClearCart
  \/ StartOwner(1) \/ CancelOwn(1) \/ StartPaymentOrder(1) \/ StartVerify(1)
  \/ OwnerStep(1) \/ CancelStep(1) \/ PaymentStep(1)

SpecSnapshot == InitStatus /\ [][NextSnapshot]_vars

\* the cart alone: items of several restaurants, an unknown item, add-ons,
\* removal of lines and clearing
ItemInput  == MenuItemIds \cup {"m9"}
AddOnInput == {<<>>, <<"a1">>}

CallAddToCart(p) ==
  \E u \in Shoppers, m \in ItemInput, v \in VariantInput, a \in AddOnInput, q \in Quantities :
    /\ CartQty(u) + q <= MaxQty
    /\ AC_Call(p, u, m, v, a, q)

RemoveItem == \E u \in Shoppers, k \in 1..MaxQty :
  /\ removeCartItem(u, k)
  /\ UNCHANGED <<orders, orderItems, wallets, walletTx, menuPrice, menuAvailable, variantLive, usedCount, couponUsage,
                  pc, loc, ret, tasks>>

NextCart ==
  \/ CallAddToCart(1) \/ AC_Run(1)
  \/ RemoveItem \/ ClearCart

SpecCart == Init /\ [][NextCart]_vars

\* ----------------------------------------------------------------- claims
\* the request in slot p is a createOrder whose (userId, idempotencyKey) is
\* already the key of a committed order
IsRetry(p) ==
  /\ loc[p].op = "createOrder" /\ loc[p].key # NoKey
  /\ \E i \in 1..Len(orders) :
       orders[i].userId = loc[p].user /\ orders[i].idempotencyKey = loc[p].key

\* the order lines of order o
LinesOf(items, o) == {i \in 1..Len(items) : items[i].orderId = o}

\* C1: a createOrder call made when an order with the same (userId,
\* idempotencyKey) is committed ends at once, returning the id of that one
\* order, and adds no order row and no order line, whatever the cart holds
C1_IdempotentRetry ==
  [][\A p \in Procs :
       (IsRetry(p) /\ pc'[p] # pc[p]) =>
         /\ pc'[p] = "idle"
         /\ ret'[p].op = "createOrder" /\ ret'[p].ok
         /\ ret'[p].orderId \in 1..Len(orders)
         /\ orders[ret'[p].orderId].userId = loc[p].user
         /\ orders[ret'[p].orderId].idempotencyKey = loc[p].key
         /\ \A i \in 1..Len(orders) :
              (orders[i].userId = loc[p].user /\ orders[i].idempotencyKey = loc[p].key)
                => i = ret'[p].orderId
         /\ orders' = orders /\ orderItems' = orderItems]_vars

\* a retry under a used key is running while the cart holds lines again
C1_Witness ==
  /\ IsRetry(1) /\ pc[1] = "co_idem"
  /\ carts[loc[1].user].lines # <<>>

\* C3: a step either leaves orders, order lines and (if it is a step of a
\* request) the carts as they were, or it is createOrder's COMMIT, which adds
\* the order row, one order line per cart line read, and removes the cart; an
\* order is never visible without its lines
C3_AtomicCreate ==
  [][/\ \A o \in 1..Len(orders') : LinesOf(orderItems', o) # {}
     /\ \/ /\ orders' = orders /\ orderItems' = orderItems
           /\ (pc' # pc => carts' = carts)
        \/ \E p \in Procs :
             /\ pc[p] = "co_tx_commit" /\ pc'[p] = "idle" /\ ret'[p].ok
             /\ Len(orders') = Len(orders) + 1
             /\ SubSeq(orders', 1, Len(orders)) = orders
             /\ SubSeq(orderItems', 1, Len(orderItems)) = orderItems
             /\ Len(orderItems') = Len(orderItems) + Len(loc[p].items)
             /\ Len(loc[p].items) >= 1
             /\ \A k \in 1..Len(loc[p].items) :
                  LET row == orderItems'[Len(orderItems) + k] IN
                    /\ row.orderId = Len(orders')
                    /\ row.menuItemId = loc[p].items[k].menuItemId
                    /\ row.variantId = loc[p].items[k].variantId
                    /\ row.quantity = loc[p].items[k].quantity
             /\ \A u \in Users : carts'[u].id # loc[p].cartId]_vars

\* an order of two lines is committed and its user's cart is gone
C3_Witness ==
  /\ Len(orders) = 1 /\ Cardinality(LinesOf(orderItems, 1)) = 2
  /\ carts[orders[1].userId].id = NoCart
  /\ ret[1] = OkRet("createOrder", 1)

\* C4: every order satisfies totalAmount = subtotal - discountAmount, with
\* subtotal, discountAmount and totalAmount >= 0 and
\* 0 <= walletAmountUsed <= totalAmount
C4_MoneyInvariant ==
  \A i \in 1..Len(orders) :
    /\ orders[i].totalAmount = orders[i].subtotal - orders[i].discountAmount
    /\ orders[i].subtotal >= 0 /\ orders[i].discountAmount >= 0
    /\ orders[i].totalAmount >= 0
    /\ 0 <= orders[i].walletAmountUsed
    /\ orders[i].walletAmountUsed <= orders[i].totalAmount

\* an order with a coupon discount was paid in part from the wallet
C4_Witness ==
  \E i \in 1..Len(orders) :
    /\ orders[i].discountAmount > 0
    /\ orders[i].walletAmountUsed > 0
    /\ orders[i].walletAmountUsed < orders[i].subtotal

\* credits minus debits over the ledger rows of user u
RECURSIVE LedgerSum(_, _)
LedgerSum(rows, u) ==
  IF rows = <<>> THEN 0
  ELSE LedgerSum(Tail(rows), u) +
       (IF Head(rows).userId # u THEN 0
        ELSE IF Head(rows).type = "credit" THEN Head(rows).amount ELSE 0 - Head(rows).amount)

BalanceOf(ws, u) == IF ws[u].exists THEN ws[u].balance ELSE 0

\* C2: for every user, the credits minus the debits of the user's ledger rows
\* equal the wallet balance
C2_LedgerReplay == \A u \in Users : LedgerSum(walletTx, u) = BalanceOf(wallets, u)

\* a top-up, the debit of an order and the refund of its cancellation are booked
C2_Witness ==
  /\ \E i \in 1..Len(walletTx) : walletTx[i].type = "debit"
  /\ \E i \in 1..Len(walletTx) : walletTx[i].type = "credit" /\ walletTx[i].referenceId = NoOrder
  /\ \E i \in 1..Len(walletTx) : walletTx[i].type = "credit" /\ walletTx[i].referenceId # NoOrder

\* slot p completes a successful cancelOrder in this step
CancelSucceeds(p) ==
  /\ pc[p] # "idle" /\ pc'[p] = "idle"
  /\ ret'[p].op = "cancelOrder" /\ ret'[p].ok

\* C7: a successful cancelOrder of an order with walletAmountUsed = W > 0 raises
\* the balance of the order's user by exactly W and appends exactly one credit
\* row of amount W, referenceId the order id and balanceAfter the new balance;
\* with W = 0 wallets and ledger are unchanged
C7_RefundAmount ==
  [][\A p \in Procs :
       CancelSucceeds(p) =>
         LET o == ret'[p].orderId
             u == orders[o].userId
             W == orders[o].walletAmountUsed
         IN  IF W > 0
               THEN /\ wallets'[u].exists
                    /\ wallets'[u].balance = BalanceOf(wallets, u) + W
                    /\ \A v \in Users \ {u} : wallets'[v] = wallets[v]
                    /\ walletTx' = Append(walletTx,
                         [userId |-> u, type |-> "credit", amount |-> W, referenceId |-> o,
                          balanceAfter |-> wallets'[u].balance])
               ELSE wallets' = wallets /\ walletTx' = walletTx]_vars

\* an order paid from the wallet was cancelled and its refund booked
C7_Witness ==
  /\ ret[1].op = "cancelOrder" /\ ret[1].ok
  /\ orders[ret[1].orderId].walletAmountUsed > 0
  /\ orders[ret[1].orderId].status = "cancelled"
  /\ \E i \in 1..Len(walletTx) : walletTx[i].type = "credit" /\ walletTx[i].referenceId = ret[1].orderId

\* C8: every step of a cancelOrder either completes it, with the status set to
\* cancelled and, when walletAmountUsed > 0, the wallet credit and the ledger
\* row in the same step, or leaves orders, wallets and ledger as they were;
\* a cancelOrder that ends in an error has changed none of them
C8_CancelAtomic ==
  [][\A p \in Procs :
       (loc[p].op = "cancelOrder" /\ pc'[p] # pc[p]) =>
         LET o == loc[p].orderId
             W == orders[o].walletAmountUsed
         IN  \/ /\ CancelSucceeds(p)
                /\ orders'[o].status = "cancelled"
                /\ W > 0 => /\ BalanceOf(wallets', orders[o].userId)
                                 = BalanceOf(wallets, orders[o].userId) + W
                            /\ Len(walletTx') = Len(walletTx) + 1
             \/ /\ orders' = orders /\ wallets' = wallets /\ walletTx' = walletTx
                /\ pc'[p] = "idle" => ~ret'[p].ok]_vars

\* the cancellation of an order paid from the wallet failed inside its
\* transaction and the order is still pending, with no refund booked
C8_Witness ==
  /\ ret[1] = ErrRet("cancelOrder", "rolled_back")
  /\ \E o \in 1..Len(orders) :
       /\ orders[o].walletAmountUsed > 0 /\ orders[o].status = "pending"
       /\ \A i \in 1..Len(walletTx) : walletTx[i].referenceId = o => walletTx[i].type = "debit"

\* cancelOrder(o, u) is legal: the order exists, belongs to u, and is pending or paid
CancelLegal(o, u) ==
  /\ o \in 1..Len(orders) /\ orders[o].userId = u
  /\ orders[o].status \in {"pending", "paid"}

\* C9: cancelOrder enters its transaction, and succeeds, only for an order of
\* the calling user whose status is pending or paid; a rejected cancelOrder
\* leaves orders, wallets and ledger unchanged
C9_CancelLegality ==
  [][\A p \in Procs :
       /\ (pc[p] = "idle" /\ loc'[p].op = "cancelOrder")
            => CancelLegal(loc'[p].orderId, loc'[p].user)
       /\ CancelSucceeds(p) => CancelLegal(loc[p].orderId, loc[p].user)
       /\ (pc[p] = "idle" /\ pc'[p] = "idle" /\ ret'[p].op = "cancelOrder" /\ ret'[p] # ret[p])
            => /\ ~ret'[p].ok
               /\ orders' = orders /\ wallets' = wallets /\ walletTx' = walletTx]_vars

\* the cancellation of a confirmed order was rejected
C9_Witness ==
  /\ ret[1] = ErrRet("cancelOrder", "not_cancellable")
  /\ \E o \in 1..Len(orders) : orders[o].status = "confirmed"

\* the admin transition table as the claim states it
AdminTable ==
  [ pending   |-> {"paid", "cancelled"},
    paid      |-> {"confirmed", "cancelled"},
    confirmed |-> {"preparing", "cancelled"},
    preparing |-> {"ready"},
    ready     |-> {"collected"},
    collected |-> {},
    cancelled |-> {} ]

C5_TerminalStates ==
  [][\A o \in 1..Len(orders) :
       orders[o].status \in {"collected", "cancelled"}
         => orders'[o].status = orders[o].status]_vars

\* C10: a createOrder with a key that ends while an order with its (userId,
\* idempotencyKey) is committed returns that order, never an error
C10_ConcurrentCheckout ==
  [][\A p \in Procs :
       (/\ loc[p].op = "createOrder" /\ loc[p].key # NoKey
        /\ pc[p] # "idle" /\ pc'[p] = "idle"
        /\ \E i \in 1..Len(orders') :
             orders'[i].userId = loc[p].user /\ orders'[i].idempotencyKey = loc[p].key)
       => /\ ret'[p].ok
          /\ orders'[ret'[p].orderId].userId = loc[p].user
          /\ orders'[ret'[p].orderId].idempotencyKey = loc[p].key]_vars

\* the debit rows of the ledger
DebitRows(rows) == {i \in 1..Len(rows) : rows[i].type = "debit"}

\* C11: no wallet balance is ever negative and no user's debits exceed the
\* credits; a step that books a debit of amount A is taken only when the
\* balance it finds is at least A, and lowers the balance by exactly A
C11_WalletNonNegative ==
  /\ [](\A u \in Users : BalanceOf(wallets, u) >= 0 /\ LedgerSum(walletTx, u) >= 0)
  /\ [][DebitRows(walletTx') # DebitRows(walletTx) =>
         /\ Len(walletTx') = Len(walletTx) + 1
         /\ LET row == walletTx'[Len(walletTx')] IN
              /\ row.type = "debit"
              /\ wallets[row.userId].exists
              /\ wallets[row.userId].balance >= row.amount
              /\ wallets'[row.userId].balance = wallets[row.userId].balance - row.amount
              /\ row.balanceAfter = wallets'[row.userId].balance]_vars

\* the debit of one order is booked and the debit of another order of the
\* same wallet, reserved against the balance before that, asks for more than
\* is left
C11_Witness ==
  \E t \in tasks :
    /\ t.kind = "debit" /\ t.pc = "start"
    /\ wallets[t.user].balance < t.amount
    /\ \E i \in DebitRows(walletTx) :
         walletTx[i].userId = t.user /\ walletTx[i].referenceId # t.orderId

\* the debits of order o: booked in the ledger, and still to be booked
DebitsOf(o) == {i \in DebitRows(walletTx) : walletTx[i].referenceId = o}

DebitTasksOf(o) == {t \in tasks : t.kind = "debit" /\ t.orderId = o}

\* the redemptions of order o: recorded, and still to be recorded
RedemptionsOf(o) == {i \in 1..Len(couponUsage) : couponUsage[i].orderId = o}

RedemptionTasksOf(o) == {t \in tasks : t.kind = "coupon" /\ t.orderId = o /\ t.pc = "start"}

\* C12: for every order, the debit rows referencing it and the debits still
\* pending for it are together at most one, of amount walletAmountUsed, and
\* so are its redemptions; no debit or redemption refers to an order that
\* does not exist; a step of a createOrder retried under a committed key
\* starts no promise and changes neither wallet, ledger nor coupon usage
C12_NoDoubleCharge ==
  /\ [](/\ \A o \in 1..Len(orders) :
            /\ Cardinality(DebitsOf(o)) + Cardinality(DebitTasksOf(o)) <= 1
            /\ \A i \in DebitsOf(o) : walletTx[i].amount = orders[o].walletAmountUsed
            /\ \A t \in DebitTasksOf(o) : t.amount = orders[o].walletAmountUsed
            /\ Cardinality(RedemptionsOf(o)) + Cardinality(RedemptionTasksOf(o)) <= 1
        /\ \A i \in DebitRows(walletTx) : walletTx[i].referenceId \in 1..Len(orders)
        /\ \A t \in tasks : t.orderId \in 1..Len(orders))
  /\ [][\A p \in Procs :
         (IsRetry(p) /\ pc'[p] # pc[p]) =>
           /\ tasks' = tasks /\ wallets' = wallets /\ walletTx' = walletTx
           /\ couponUsage' = couponUsage /\ usedCount' = usedCount]_vars

\* the order's debit and redemption are booked, its key has been retried
\* with the cart refilled, and the retry was answered with the order
C12_Witness ==
  /\ Len(orders) = 1 /\ orders[1].idempotencyKey # NoKey
  /\ Cardinality(DebitsOf(1)) = 1 /\ Cardinality(RedemptionsOf(1)) = 1
  /\ carts[orders[1].userId].lines # <<>>
  /\ \E p \in Procs : ret[p] = OkRet("createOrder", 1) /\ pc[p] = "idle"
  /\ tasks = {}

\* C13: coupon_usage only grows by appended rows and used_count never
\* decreases; once a (user, coupon) redemption row exists for a coupon with
\* perUserLimit = 1, every validateCoupon of that user for that coupon, from
\* the validate endpoint or from createOrder, is rejected, whatever the status
\* of the order that redeemed it
C13_RedemptionImmutable ==
  [][/\ Len(couponUsage') >= Len(couponUsage)
     /\ SubSeq(couponUsage', 1, Len(couponUsage)) = couponUsage
     /\ \A c \in CouponCodes : usedCount'[c] >= usedCount[c]
     /\ \A p \in Procs :
          (/\ pc[p] \in {"vc_read", "co_coupon"} /\ pc'[p] # pc[p]
           /\ Normalize(loc[p].coupon) \in CouponCodes
           /\ Coupons[Normalize(loc[p].coupon)].perUserLimit = 1
           /\ \E i \in 1..Len(couponUsage) :
                /\ couponUsage[i].userId = loc[p].user
                /\ couponUsage[i].couponId = Normalize(loc[p].coupon))
          => /\ pc'[p] = "idle" /\ ~ret'[p].ok
             /\ orders' = orders /\ tasks' = tasks]_vars

\* the order that redeemed the coupon is cancelled, its redemption row is
\* still there, and the user's next checkout with the coupon was rejected
C13_Witness ==
  /\ \E i \in 1..Len(couponUsage) :
       /\ couponUsage[i].userId = "u1"
       /\ Coupons[couponUsage[i].couponId].perUserLimit = 1
       /\ orders[couponUsage[i].orderId].status = "cancelled"
  /\ ret[1] = ErrRet("createOrder", "per_user_limit")
  /\ carts["u1"].lines # <<>>

\* C14: the coupon_usage rows of a (user, coupon) pair are never more than
\* the coupon's perUserLimit
C14_PerUserCap ==
  \A u \in Users, c \in CouponCodes : TimesUsed(u, c) <= Coupons[c].perUserLimit

\* the checks of the claim, in its order, each with whether it fails
EligibilityChecks(code, u, subtotal) ==
  LET c == Normalize(code) IN
  IF c \notin CouponCodes
    THEN << [err |-> IF c = "" THEN "code_required" ELSE "invalid", fails |-> TRUE] >>
    ELSE << [err |-> "invalid",        fails |-> ~Coupons[c].isActive],
            [err |-> "expired",        fails |-> Coupons[c].expired],
            [err |-> "usage_limit",    fails |-> Coupons[c].usageLimit # -1
                                                 /\ usedCount[c] >= Coupons[c].usageLimit],
            [err |-> "min_order",      fails |-> subtotal < Coupons[c].minOrder],
            [err |-> "per_user_limit", fails |->
               Cardinality({i \in 1..Len(couponUsage) :
                              couponUsage[i].userId = u /\ couponUsage[i].couponId = c})
                 >= Coupons[c].perUserLimit] >>

FailingChecks(code, u, subtotal) ==
  {i \in 1..Len(EligibilityChecks(code, u, subtotal)) : EligibilityChecks(code, u, subtotal)[i].fails}

\* C15: validateCoupon(code, userId, subtotal) accepts exactly when none of
\* the checks fails (code exists and is active, not expired, usage limit not
\* reached, subtotal >= minOrder, user's redemption rows < perUserLimit) and
\* otherwise throws the error of the first check that fails
C15_Eligibility ==
  [][\A p \in Procs :
       (pc[p] = "vc_read" /\ pc'[p] # pc[p]) =>
         LET l == loc[p]
             F == FailingChecks(l.coupon, l.user, l.subtotal)
         IN  /\ pc'[p] = "idle" /\ ret'[p].op = "validateCoupon"
             /\ ret'[p].ok <=> F = {}
             /\ F # {} => ret'[p].err =
                   EligibilityChecks(l.coupon, l.user, l.subtotal)[SetMin(F)].err]_vars

\* the coupon with a usage limit is used up by u1, whose redemption row also
\* exhausts the per-user cap, and a validate of it was answered with the
\* usage-limit error, the earlier of the failing checks
C15_Witness ==
  \E c \in CouponCodes :
    /\ Coupons[c].usageLimit # -1 /\ usedCount[c] >= Coupons[c].usageLimit
    /\ ~Coupons[c].expired /\ Coupons[c].isActive
    /\ \E i \in 1..Len(couponUsage) : couponUsage[i].couponId = c /\ couponUsage[i].userId = "u1"
    /\ ret[2] = ErrRet("validateCoupon", "usage_limit")

\* the validate call answered in this step by slot p, accepted
Accepted(p) == pc[p] = "vc_read" /\ pc'[p] = "idle" /\ ret'[p].ok

\* the paisa nearest to x hundredths of a paisa
NearestPaisa(x) ==
  CHOOSE r \in (x \div 100)..(x \div 100 + 1) :
    \A q \in (x \div 100)..(x \div 100 + 1) :
      (IF 100 * r >= x THEN 100 * r - x ELSE x - 100 * r)
        <= (IF 100 * q >= x THEN 100 * q - x ELSE x - 100 * q)

\* C16 as stated: the discount of an accepted coupon is value (flat) or
\* subtotal*value/100 capped at maxDiscount when set (percentage), reduced
\* to at most subtotal; in hundredths of a paisa, exactly
C16_DiscountExact ==
  [][\A p \in Procs :
       Accepted(p) =>
         LET c      == Coupons[Normalize(loc[p].coupon)]
             sub    == loc[p].subtotal
             raw    == IF c.type = "flat" THEN 100 * c.value
                       ELSE IF c.maxDiscount # 0
                         THEN Min(sub * c.value, 100 * c.maxDiscount)
                         ELSE sub * c.value
         IN  100 * ret'[p].discount = Min(raw, 100 * sub)]_vars

\* C16: the discount of an accepted coupon is value (flat) or subtotal*value/100
\* rounded to the paisa and capped at maxDiscount when set (percentage),
\* reduced to at most subtotal, so 0 <= discount <= subtotal
C16_Discount ==
  [][\A p \in Procs :
       Accepted(p) =>
         LET c      == Coupons[Normalize(loc[p].coupon)]
             sub    == loc[p].subtotal
             raw    == IF c.type = "flat" THEN c.value
                       ELSE IF c.maxDiscount # 0
                         THEN Min(NearestPaisa(sub * c.value), c.maxDiscount)
                         ELSE NearestPaisa(sub * c.value)
         IN  /\ ret'[p].discount = Min(raw, sub)
             /\ 0 <= ret'[p].discount /\ ret'[p].discount <= sub]_vars

\* a percentage coupon without cap was accepted for a subtotal whose
\* percentage is not a whole number of paise, and the discount answered is
\* the nearest paisa
C16_Witness ==
  \E c \in CouponCodes, a \in SubtotalInput :
    /\ Coupons[c].type = "percentage" /\ Coupons[c].maxDiscount = 0
    /\ (a * Coupons[c].value) % 100 # 0
    /\ ret[2] = ValidRet(NearestPaisa(a * Coupons[c].value))

\* the owner's moves as the claim lists them
OwnerTable ==
  { <<"pending", "confirmed">>, <<"confirmed", "preparing">>,
    <<"preparing", "ready">>, <<"ready", "collected">> }

\* owner w asks for order o to be moved to status st, legally
OwnerLegal(w, o, st) ==
  /\ o \in 1..Len(orders)
  /\ Restaurants[orders[o].restaurantId].ownerId = w
  /\ <<orders[o].status, st>> \in OwnerTable

\* C17: the owner status endpoint goes on to its UPDATE, and completes, only
\* for an order of the owner's own restaurant and one of the moves
\* pending->confirmed, confirmed->preparing, preparing->ready,
\* ready->collected; it then sets that status and changes nothing but status
\* and preparationTime, never to paid or cancelled; every other request is
\* rejected with the orders unchanged
C17_OwnerTable ==
  [][\A p \in Procs :
       /\ (pc[p] = "idle" /\ loc'[p].op = "ownerStatus")
            => OwnerLegal(loc'[p].owner, loc'[p].orderId, loc'[p].newStatus)
       /\ (pc[p] # "idle" /\ pc'[p] = "idle" /\ ret'[p].op = "ownerStatus")
            => LET o == loc[p].orderId IN
               /\ ret'[p].ok
               /\ OwnerLegal(loc[p].owner, o, loc[p].newStatus)
               /\ orders'[o].status = loc[p].newStatus
               /\ orders'[o].status \notin {"paid", "cancelled"}
               /\ [orders' EXCEPT ![o].status = orders[o].status,
                                  ![o].preparationTime = orders[o].preparationTime] = orders
       /\ (pc[p] = "idle" /\ pc'[p] = "idle" /\ ret'[p].op = "ownerStatus" /\ ret'[p] # ret[p])
            => ~ret'[p].ok /\ orders' = orders]_vars

\* an owner's request for a move outside the table on the pending order of
\* the own restaurant was rejected
C17_Witness ==
  /\ ret[1] = ErrRet("ownerStatus", "invalid_transition")
  /\ \E o \in 1..Len(orders) : orders[o].status = "pending"

\* the cart of user u cannot be checked out: it is absent or empty, its
\* restaurant is inactive or not open, or its subtotal is below minOrder
CartIllegal(u) ==
  \/ carts[u].id = NoCart \/ carts[u].lines = <<>>
  \/ ~Restaurants[carts[u].restaurantId].isActive
  \/ ~Restaurants[carts[u].restaurantId].isOpen
  \/ SumSeq([i \in 1..Len(carts[u].lines) |-> PricedLine(carts[u].lines[i]).totalPrice])
       < Restaurants[carts[u].restaurantId].minOrder

RejectErrors ==
  {"cart_empty", "restaurant_inactive", "restaurant_closed", "min_order",
   "code_required", "invalid", "expired", "usage_limit", "per_user_limit"}

MoneyOf(row) ==
  <<row.subtotal, row.discountAmount, row.totalAmount, row.walletAmountUsed>>

\* C19: no step changes or removes an order line that exists, or changes
\* the subtotal, discountAmount, totalAmount or walletAmountUsed of an order
\* that exists
C19_SnapshotImmutable ==
  [][/\ Len(orders') >= Len(orders) /\ Len(orderItems') >= Len(orderItems)
     /\ SubSeq(orderItems', 1, Len(orderItems)) = orderItems
     /\ \A o \in 1..Len(orders) : MoneyOf(orders'[o]) = MoneyOf(orders[o])]_vars

\* the item of the order has been repriced, the customer holds a new cart
\* priced at the new price, the order has been cancelled, and its line and
\* money fields are those of the placed order
C19_Witness ==
  /\ Len(orders) >= 1 /\ orders[1].status = "cancelled"
  /\ \E i \in LinesOf(orderItems, 1) :
       /\ menuPrice[orderItems[i].menuItemId] # orderItems[i].unitPrice
       /\ \E k \in 1..Len(carts["u1"].lines) :
            /\ carts["u1"].lines[k].menuItemId = orderItems[i].menuItemId
            /\ PricedLine(carts["u1"].lines[k]).unitPrice # orderItems[i].unitPrice
  /\ orders[1].subtotal = SumSeq([i \in 1..Len(orderItems) |-> orderItems[i].totalPrice])
  /\ orders[1].walletAmountUsed > 0

\* C20: every line of a cart refers to a menu item of the restaurant the
\* cart is pinned to; an addToCart of an item of another restaurant, run
\* while the user's cart exists, ends in an error and leaves the carts as
\* they were
C20_SingleRestaurant ==
  /\ [](\A u \in Users : \A k \in 1..Len(carts[u].lines) :
          /\ carts[u].id # NoCart
          /\ MenuItems[carts[u].lines[k].menuItemId].restaurantId = carts[u].restaurantId)
  /\ [][\A p \in Procs :
         (/\ pc[p] = "ac_run" /\ pc'[p] # pc[p]
          /\ loc[p].menuItemId \in MenuItemIds
          /\ carts[loc[p].user].id # NoCart
          /\ MenuItems[loc[p].menuItemId].restaurantId # carts[loc[p].user].restaurantId)
         => /\ pc'[p] = "idle" /\ ~ret'[p].ok
            /\ carts' = carts]_vars

\* the user holds a cart with a line of one restaurant and the request to
\* add an item of another restaurant was rejected
C20_Witness ==
  /\ ret[1] = ErrRet("addToCart", "other_restaurant")
  /\ carts["u1"].id # NoCart /\ carts["u1"].lines # <<>>

\* the add-on ids stored in a cart line's snapshot
StoredAddOnIds(line) == {a.addOnId : a \in line.addOns}

\* C21: no cart holds two lines with the same menu item, variant and set of
\* stored add-on ids
C21_LineDedup ==
  \A u \in Users : \A i, j \in 1..Len(carts[u].lines) :
    (/\ carts[u].lines[i].menuItemId = carts[u].lines[j].menuItemId
     /\ carts[u].lines[i].variantId = carts[u].lines[j].variantId
     /\ StoredAddOnIds(carts[u].lines[i]) = StoredAddOnIds(carts[u].lines[j]))
    => i = j

\* ------------------------------------------------ pricing a cart
\* a line is added with a variant the catalog still holds, or with none
AddLine == \E u \in Shoppers, m \in CartItems, v \in VariantInput, a \in AddOnInput, q \in Quantities :
  /\ CartQty(u) + q <= MaxQty
  /\ v # NoVariant => variantLive[v]
  /\ addToCart(u, m, v, a, q)
  /\ UNCHANGED <<menuPrice, menuAvailable, variantLive, orders, orderItems, wallets, walletTx, usedCount, couponUsage, pc, loc, ret, tasks>>

Withdraw == \E w \in Owners, m \in CartItems, b \in BOOLEAN : SetAvailability(w, m, b)

DropVariants == \E m \in CartItems : updateMenuItem(m)

NextPricing ==
  \/ AddLine \/ RemoveItem \/ ClearCart
  \/ Reprice \/ Withdraw \/ DropVariants

SpecPricing == Init /\ [][NextPricing]_vars

\* the sum of the prices stored in a line's add-on snapshot
RECURSIVE SnapshotSum(_)
SnapshotSum(S) ==
  IF S = {} THEN 0
  ELSE LET a == CHOOSE x \in S : TRUE IN a.price + SnapshotSum(S \ {a})

\* the unit price the pricing rule gives a stored cart line
RuleUnitPrice(line) ==
  (IF line.variantId # NoVariant THEN Variants[line.variantId].price
   ELSE menuPrice[line.menuItemId]) + SnapshotSum(line.addOns)

RECURSIVE SumTotals(_, _)
SumTotals(items, n) == IF n = 0 THEN 0 ELSE items[n].totalPrice + SumTotals(items, n - 1)

\* C22: in every cart each line's unitPrice is the variant's price if the line
\* has a variant and otherwise the item's current base price, plus the prices
\* stored in the line's add-on snapshot; totalPrice is unitPrice times
\* quantity; the subtotal is the sum of the line totals, no discount is
\* applied and the total equals the subtotal
C22_PricingFormula ==
  \A u \in Users :
    LET view == getCart(u) IN
    /\ Len(view.items) = Len(carts[u].lines)
    /\ \A i \in 1..Len(view.items) :
         /\ view.items[i].unitPrice = RuleUnitPrice(carts[u].lines[i])
         /\ view.items[i].totalPrice = view.items[i].unitPrice * carts[u].lines[i].quantity
    /\ view.pricing.subtotal = SumTotals(view.items, Len(view.items))
    /\ view.pricing.discountAmount = 0
    /\ view.pricing.totalAmount = view.pricing.subtotal

\* a cart with a variant line carrying an add-on next to a plain line, priced
\* after the owner changed the item's base price
C22_Witness ==
  /\ Len(carts["u1"].lines) = 2
  /\ \E i, j \in 1..2 :
       /\ carts["u1"].lines[i].variantId = "v1" /\ carts["u1"].lines[i].addOns # {}
       /\ carts["u1"].lines[j].variantId = NoVariant
  /\ menuPrice["m1"] # MenuItems["m1"].basePrice
  /\ getCart("u1").pricing.subtotal = 12000 + 2000 + menuPrice["m1"]

\* a stored cart line whose menu item is withdrawn, or whose variant is gone
LineUnavailable(line) ==
  \/ ~menuAvailable[line.menuItemId]
  \/ line.variantId # NoVariant /\ ~variantLive[line.variantId]

RECURSIVE SumAvailable(_, _, _)
SumAvailable(items, lines, n) ==
  IF n = 0 THEN 0
  ELSE (IF LineUnavailable(lines[n]) THEN 0 ELSE items[n].totalPrice)
       + SumAvailable(items, lines, n - 1)

\* C23: getCart's subtotal leaves out every line whose menu item or variant
\* no longer exists or became unavailable since the line was added
C23_UnavailableExcluded ==
  \A u \in Users :
    getCart(u).pricing.subtotal =
      SumAvailable(getCart(u).items, carts[u].lines, Len(carts[u].lines))

\* ------------------------------------------------ reordering a past order
\* the cart the past order was placed from: a variant line with an add-on and
\* a plain line of the same item
ReorderedCart ==
  [id |-> 1, restaurantId |-> "r1",
   lines |-> <<[menuItemId |-> "m1", variantId |-> "v1",
                addOns |-> AddOnSnapshot("m1", <<"a1">>), quantity |-> 1],
               [menuItemId |-> "m1", variantId |-> NoVariant,
                addOns |-> AddOnSnapshot("m1", <<>>), quantity |-> 1]>>]

ReorderedRequest ==
  LET items    == _getCartItemsWithDetails(ReorderedCart)
      subtotal == _calculatePricing(items).subtotal
  IN  [IdleLoc EXCEPT !.op = "createOrder", !.user = "u1",
                      !.cartId = ReorderedCart.id, !.restaurantId = ReorderedCart.restaurantId,
                      !.items = items, !.subtotal = subtotal,
                      !.total = FinalTotal(subtotal, 0)]

\* reached from Init by two addToCart and a createOrder without wallet or coupon
InitReorder ==
  /\ menuPrice   = [m \in MenuItemIds |-> MenuItems[m].basePrice]
  /\ menuAvailable = [m \in MenuItemIds |-> MenuItems[m].isAvailable]
  /\ variantLive = [v \in VariantIds |-> TRUE]
  /\ carts       = [u \in Users |-> EmptyCart]
  /\ orders      = <<OrderRow(ReorderedRequest)>>
  /\ orderItems  = OrderItemRows(1, ReorderedRequest.items)
  /\ wallets     = [u \in Users |-> NoWallet]
  /\ walletTx    = <<>>
  /\ usedCount   = [c \in CouponCodes |-> 0]
  /\ couponUsage = <<>>
  /\ pc          = [p \in Procs |-> "idle"]
  /\ loc         = [p \in Procs |-> IdleLoc]
  /\ ret         = [p \in Procs |-> NoRet]
  /\ tasks       = {}

ReorderItems == {"m1", "m2"}

AddEither == \E u \in Shoppers, m \in ReorderItems, q \in Quantities :
  /\ CartQty(u) + q <= MaxQty
  /\ addToCart(u, m, NoVariant, <<>>, q)
  /\ UNCHANGED <<menuPrice, menuAvailable, variantLive, orders, orderItems, wallets, walletTx, usedCount, couponUsage, pc, loc, ret, tasks>>

StartReorder(p) == \E u \in Users, o \in OrderIds :
  /\ CartQty("u1") < MaxQty
  /\ RO_Read(p, o, u)

NextReorder ==
  \/ AddEither \/ ClearCart \/ Withdraw \/ DropVariants
  \/ StartReorder(1) \/ RO_Line(1)

SpecReorder == InitReorder /\ [][NextReorder]_vars

\* slot p takes a turn of the reorder loop
ReorderTurn(p) == pc[p] = "ro_line" /\ (pc'[p] # pc[p] \/ loc'[p] # loc[p])

\* the user's cart holds items of a restaurant other than the past order's
CartElsewhere(u, o) ==
  /\ carts[u].id # NoCart
  /\ carts[u].restaurantId # orders[o].restaurantId

\* the past line the loop of slot p is at
PastLine(p) == PastItems(loc[p].orderId)[loc[p].idx]

\* C24 as stated: a reorder that runs while the user's cart holds items of a
\* restaurant other than the past order's ends refused with the
\* cross-restaurant error, the cart unchanged
C24_ReorderRefused ==
  [][\A p \in Procs :
       (/\ ReorderTurn(p) /\ pc'[p] = "idle"
        /\ CartElsewhere(loc[p].user, loc[p].orderId))
       => /\ ret'[p] = ErrRet("reorder", "other_restaurant")
          /\ carts' = carts]_vars

\* C24: a turn of the reorder loop taken while the user's cart holds items of
\* another restaurant adds no line and leaves the carts unchanged; it refuses
\* the reorder with the cross-restaurant error when the past line's item is
\* available, and skips the line otherwise; every cart line belongs to the
\* cart's restaurant
C24_NoMixing ==
  /\ [](\A u \in Users : \A k \in 1..Len(carts[u].lines) :
          MenuItems[carts[u].lines[k].menuItemId].restaurantId = carts[u].restaurantId)
  /\ [][\A p \in Procs :
         (ReorderTurn(p) /\ CartElsewhere(loc[p].user, loc[p].orderId))
         => /\ carts' = carts
            /\ IF PastLine(p).menuItemId \in loc[p].avail /\ menuAvailable[PastLine(p).menuItemId]
                 THEN pc'[p] = "idle" /\ ret'[p] = ErrRet("reorder", "other_restaurant")
                 ELSE /\ IF pc'[p] = "idle"
                           THEN ret'[p] = ReorderRet(loc[p].added, Append(loc[p].skipped, loc[p].idx))
                           ELSE /\ loc'[p].added = loc[p].added
                                /\ loc'[p].skipped = Append(loc[p].skipped, loc[p].idx)]_vars

\* a reorder of the order placed at r1 was refused with the cross-restaurant
\* error while the cart holds a line of r2
C24_Witness ==
  /\ ret[1] = ErrRet("reorder", "other_restaurant")
  /\ carts["u1"].restaurantId = "r2" /\ carts["u1"].lines # <<>>

\* the added and skipped lists after a turn of slot p
AddedAfter(p)   == IF pc'[p] = "idle" THEN ret'[p].added ELSE loc'[p].added
SkippedAfter(p) == IF pc'[p] = "idle" THEN ret'[p].skipped ELSE loc'[p].skipped

\* the past line's stored variant no longer exists
VariantGone(line) == line.variantId # NoVariant /\ ~variantLive[line.variantId]

\* C25: a turn of the reorder loop on a past line whose item is unavailable or
\* whose stored variant no longer exists reports the line in skipped and adds
\* nothing to the cart; on any other line it adds the line's original
\* quantity to the cart and reports the line in added; a completed reorder
\* reports every past line in exactly one of added and skipped
C25_ReorderSkips ==
  [][\A p \in Procs :
       (ReorderTurn(p) /\ ~CartElsewhere(loc[p].user, loc[p].orderId))
       => LET u    == loc[p].user
              k    == loc[p].idx
              line == PastLine(p)
              here == line.menuItemId \in loc[p].avail /\ menuAvailable[line.menuItemId]
              away == line.menuItemId \notin loc[p].avail /\ ~menuAvailable[line.menuItemId]
          IN  /\ (away \/ VariantGone(line))
                   => /\ carts' = carts
                      /\ SkippedAfter(p) = Append(loc[p].skipped, k)
                      /\ AddedAfter(p) = loc[p].added
              /\ (here /\ ~VariantGone(line))
                   => /\ SumSeq(SeqMap(LAMBDA x : x.quantity, carts'[u].lines))
                           = CartQty(u) + line.quantity
                      /\ AddedAfter(p) = Append(loc[p].added, k)
                      /\ SkippedAfter(p) = loc[p].skipped
              /\ pc'[p] = "idle"
                   => /\ Len(AddedAfter(p)) + Len(SkippedAfter(p)) = Len(PastItems(loc[p].orderId))
                      /\ \A i \in 1..Len(PastItems(loc[p].orderId)) :
                           (\E x \in 1..Len(AddedAfter(p)) : AddedAfter(p)[x] = i)
                             # (\E x \in 1..Len(SkippedAfter(p)) : SkippedAfter(p)[x] = i)]_vars

\* ------------------------------------- a cancellation racing status writes
NextOverwrite ==
  \/ CancelOwn(1) \/ CancelStep(1)
  \/ StartAdmin(2) \/ StartOwner(2) \/ StartPaymentOrder(2) \/ StartVerify(2)
  \/ AdminStep(2) \/ OwnerStep(2) \/ PaymentStep(2)

SpecOverwrite == InitStatus /\ [][NextOverwrite]_vars

\* C26: once cancelOrder has committed, the order's stored status is
\* cancelled and stays cancelled whatever an admin update, an owner update or
\* a verifyPayment that read the earlier status writes afterwards
C26_CancelSticks ==
  [][\A o \in 1..Len(orders) :
       orders[o].status = "cancelled" => orders'[o].status = "cancelled"]_vars

\* ------------------------------------------- two cancellations of one order
\* reached from Init by addMoney, addToCart and createOrder with useWallet:
\* the order is committed and its wallet debit is started, not yet run
InitCommitted ==
  /\ menuPrice   = [m \in MenuItemIds |-> MenuItems[m].basePrice]
  /\ menuAvailable = [m \in MenuItemIds |-> MenuItems[m].isAvailable]
  /\ variantLive = [v \in VariantIds |-> TRUE]
  /\ carts       = [u \in Users |-> EmptyCart]
  /\ orders      = <<OrderRow(PlacedRequest)>>
  /\ orderItems  = OrderItemRows(1, PlacedRequest.items)
  /\ wallets     = [u \in Users |->
                      IF u = "u1" THEN [exists |-> TRUE, balance |-> PlacedTopUp] ELSE NoWallet]
  /\ walletTx    = << LedgerRow("u1", "credit", PlacedTopUp, NoOrder, PlacedTopUp) >>
  /\ usedCount   = [c \in CouponCodes |-> 0]
  /\ couponUsage = <<>>
  /\ tasks       = PostCommitTasks(PlacedRequest, 1)
  /\ pc          = [p \in Procs |-> "idle"]
  /\ loc         = [p \in Procs |-> IdleLoc]
  /\ ret         = [p \in Procs |-> NoRet]

NextRefund ==
  \/ \E p \in Procs : CancelOwn(p) \/ CancelStep(p)
  \/ DebitStep

SpecRefund == InitCommitted /\ [][NextRefund]_vars

\* the credit rows of the ledger that reference order o
CreditsOf(o) ==
  {i \in 1..Len(walletTx) : walletTx[i].type = "credit" /\ walletTx[i].referenceId = o}

RECURSIVE SumRows(_)
SumRows(S) ==
  IF S = {} THEN 0
  ELSE LET i == CHOOSE x \in S : TRUE IN walletTx[i].amount + SumRows(S \ {i})

\* C27: whatever the interleaving of cancelOrder calls on an order paid with
\* W > 0 from the wallet, at most one credit row references the order and the
\* credits referencing it add up to at most W
C27_SingleRefund ==
  \A o \in 1..Len(orders) :
    orders[o].walletAmountUsed > 0
      => /\ Cardinality(CreditsOf(o)) <= 1
         /\ SumRows(CreditsOf(o)) <= orders[o].walletAmountUsed

\* C28: for every order the credits referencing it add up to at most the
\* debits referencing it
C28_RefundWithinDebits ==
  \A o \in 1..Len(orders) : SumRows(CreditsOf(o)) <= SumRows(DebitsOf(o))

\* ------------------------------------------- two checkouts of one cart
AnyKeyCheckout(p) == \E u \in Shoppers, k \in Keys :
  /\ Len(orders) < MaxPlaced
  /\ CO_Call(p, u, k, FALSE, NoCoupon)

NextDouble ==
  \/ AddPair
  \/ \E p \in Procs : AnyKeyCheckout(p) \/ CheckoutStep(p)

SpecDouble == Init /\ [][NextDouble]_vars

\* C29: a createOrder commits an order only while the cart it read is still
\* the user's cart: of the createOrder calls that read one cart, without
\* idempotency key or with different keys, at most one commits an order
C29_OneOrderPerCart ==
  [][\A p \in Procs :
       (pc[p] = "co_tx_commit" /\ pc'[p] = "idle" /\ ret'[p].ok)
       => carts[loc[p].user].id = loc[p].cartId]_vars

\* ------------------------------------ the side effects of a checkout
EffectCheckout(p) == \E u \in Shoppers, w \in BOOLEAN, c \in CouponOrNone :
  CO_Start(p, u, NoKey, w, c)

NextEffects ==
  \/ AddPair
  \/ StartAddMoney(2) \/ AddMoneyStep(2)
  \/ EffectCheckout(1) \/ CreateOrderStep(1) \/ Fail(1)
  \/ TaskStep

SpecEffects == Init /\ [][NextEffects]_vars

\* the positions of a createOrder between its call and its return
CreateOrderLabels ==
  {"co_idem", "co_cart", "co_coupon", "co_wallet",
   "co_tx_order", "co_tx_items", "co_tx_del", "co_tx_commit"}

\* C30: no step of createOrder changes a wallet balance, the ledger, a
\* coupon's usedCount or the redemption rows; the debit and the redemption are
\* started only by the step that commits the order, so a rolled-back attempt
\* starts none, and every started or performed debit and redemption belongs
\* to a committed order
C30_EffectsAfterCommit ==
  /\ [][\A p \in Procs :
         (pc[p] \in CreateOrderLabels /\ pc'[p] # pc[p])
         => /\ walletTx' = walletTx /\ usedCount' = usedCount /\ couponUsage' = couponUsage
            /\ \A u \in Users : wallets'[u].balance = wallets[u].balance
            /\ tasks' # tasks
                 => /\ pc[p] = "co_tx_commit" /\ ret'[p].ok
                    /\ Len(orders') = Len(orders) + 1
                    /\ \A t \in tasks' \ tasks : t.orderId = Len(orders')]_vars
  /\ [](/\ \A t \in tasks : t.orderId \in 1..Len(orders)
        /\ \A i \in DebitRows(walletTx) : walletTx[i].referenceId \in 1..Len(orders)
        /\ \A i \in 1..Len(couponUsage) : couponUsage[i].orderId \in 1..Len(orders))

\* a createOrder with a wallet amount reserved and a coupon accepted stands
\* before its COMMIT with the balance, the ledger and the coupon untouched
C30_Witness ==
  /\ pc[1] = "co_tx_commit"
  /\ loc[1].walletAmt > 0 /\ loc[1].coupon # NoCoupon
  /\ wallets[loc[1].user].balance >= loc[1].walletAmt
  /\ DebitRows(walletTx) = {} /\ couponUsage = <<>> /\ tasks = {}
  /\ \A c \in CouponCodes : usedCount[c] = 0

\* a started promise takes a step or ends
TaskTurn == tasks' # tasks /\ tasks' \subseteq tasks \cup {[t EXCEPT !.pc = l] : t \in tasks, l \in {"locked", "inserted"}}

\* C31: a step of a post-commit wallet debit or redemption recording, its
\* failure included, changes no order row, no order line and no cart, and
\* leaves the outcome createOrder returned in place; the committing step
\* itself returns the order as a success
C31_PostCommitKeepsOrder ==
  /\ [][TaskTurn => /\ orders' = orders /\ orderItems' = orderItems
                    /\ carts' = carts /\ ret' = ret]_vars
  /\ [][\A p \in Procs :
         (pc[p] = "co_tx_commit" /\ Len(orders') = Len(orders) + 1)
         => ret'[p] = OkRet("createOrder", Len(orders'))]_vars

\* the order was committed with a wallet amount and a coupon, both promises
\* ended without a debit row or a redemption row, and createOrder's success
\* stands
C31_Witness ==
  /\ Len(orders) = 1 /\ orders[1].walletAmountUsed > 0 /\ orders[1].couponCode # NoCoupon
  /\ tasks = {} /\ DebitRows(walletTx) = {} /\ couponUsage = <<>>
  /\ ret[1] = OkRet("createOrder", 1)
  /\ carts[orders[1].userId] = EmptyCart

\* the redemption rows of coupon c
UsageRowsOf(c) == {i \in 1..Len(couponUsage) : couponUsage[i].couponId = c}

\* C32: whenever no recordCouponUsage is in progress, a coupon's usedCount
\* equals the number of its redemption rows
C32_CounterMatchesRows ==
  (\A t \in tasks : t.kind # "coupon")
    => \A c \in CouponCodes : usedCount[c] = Cardinality(UsageRowsOf(c))

\* ------------------------------------------------ the wallet ledger
\* amounts sent to addMoney, in paise: none, a valid one, one above the cap
AmountInput == {0, 20000, MaxAddMoney + 1}

AnyAddMoney(p) == \E u \in Shoppers, a \in AmountInput : AM_Start(p, u, a)

NextLedger ==
  \/ AddPair
  \/ WalletCheckout(1) \/ AnyAddMoney(2) \/ CancelOwn(2)
  \/ CheckoutStep(1) \/ CO_Wallet(1) \/ AddMoneyStep(2) \/ CancelStep(2)
  \/ Fail(1) \/ Fail(2)
  \/ DebitStep

SpecLedger == Init /\ [][NextLedger]_vars

\* C33: every step appends at most one ledger row and keeps the rows already
\* there; a step that appends a row changes exactly the balance of the row's
\* user, by the row's amount in the row's direction, and the row's
\* balanceAfter is the new balance; a step that appends no row changes no
\* balance
C33_OneRowPerMutation ==
  [][/\ Len(walletTx') \in {Len(walletTx), Len(walletTx) + 1}
     /\ SubSeq(walletTx', 1, Len(walletTx)) = walletTx
     /\ IF Len(walletTx') = Len(walletTx)
          THEN \A u \in Users : wallets'[u].balance = wallets[u].balance
          ELSE LET row == walletTx'[Len(walletTx')] IN
               /\ row.amount > 0
               /\ wallets'[row.userId].exists
               /\ wallets'[row.userId].balance = row.balanceAfter
               /\ wallets'[row.userId].balance = wallets[row.userId].balance
                    + (IF row.type = "credit" THEN row.amount ELSE 0 - row.amount)
               /\ \A u \in Users \ {row.userId} : wallets'[u] = wallets[u]]_vars

\* the ledger holds a top-up, the debit of an order and the refund of its
\* cancellation, each with the balance it left
C33_Witness ==
  /\ Len(walletTx) = 3
  /\ walletTx[1].type = "credit" /\ walletTx[1].balanceAfter = walletTx[1].amount
  /\ walletTx[2].type = "debit" /\ walletTx[2].balanceAfter = walletTx[1].amount - walletTx[2].amount
  /\ walletTx[3].type = "credit" /\ walletTx[3].referenceId = walletTx[2].referenceId
  /\ walletTx[3].balanceAfter = wallets[walletTx[3].userId].balance

\* ------------------------------------------ status updates with a time
\* preparationTime sent with a status update, in minutes, or none
PrepInput == {NoPrep, 45}

TimedAdmin(p) == \E o \in OrderIds, st \in Statuses, t \in PrepInput : UOS_Read(p, o, st, t)

TimedOwner(p) == \E w \in Owners, o \in OrderIds, st \in Statuses, t \in PrepInput :
  OWN_Read(p, w, o, st, t)

NextPrep ==
  \/ TimedAdmin(1) \/ TimedOwner(1)
  \/ AdminStep(1) \/ OwnerStep(1)

SpecPrep == InitStatus /\ [][NextPrep]_vars

\* C34: a status update changes an order's preparationTime only when the
\* status it writes is confirmed
C34_PrepOnlyOnConfirm ==
  [][\A o \in 1..Len(orders) :
       orders'[o].preparationTime # orders[o].preparationTime
         => orders'[o].status = "confirmed"]_vars

\* slot p receives a verifyPayment or createPaymentOrder call
PaymentCall(p) ==
  /\ pc[p] = "idle"
  /\ \/ pc'[p] \in {"vp_write", "cp_write"}
     \/ ret'[p] # ret[p] /\ ret'[p].op \in {"verifyPayment", "createPaymentOrder"}

BalanceRead(u) == IF wallets[u].exists THEN wallets[u].balance ELSE 0

\* max(0, min(balance, total)), written out
Reserved(balance, total) ==
  IF balance <= 0 \/ total <= 0 THEN 0
  ELSE IF balance <= total THEN balance ELSE total

\* C36: createOrder reserves max(0, min(balance, finalTotal)) of the balance
\* it reads before its transaction when useWallet is true, and the order it
\* commits stores that amount as walletAmountUsed, or 0 when useWallet is
\* false, with totalAmount = max(0, subtotal - discountAmount); subtotal 500,
\* discount 50 and balance 1000 give 450 and 450
C36_WalletReservation ==
  /\ [][\A p \in Procs :
         (pc[p] = "co_wallet" /\ pc'[p] # pc[p])
         => loc'[p].walletAmt = Reserved(BalanceRead(loc[p].user), loc[p].total)]_vars
  /\ [][\A p \in Procs :
         (pc[p] = "co_tx_commit" /\ Len(orders') = Len(orders) + 1)
         => LET row == orders'[Len(orders')] IN
            /\ row.totalAmount = (IF row.subtotal > row.discountAmount
                                    THEN row.subtotal - row.discountAmount ELSE 0)
            /\ row.walletAmountUsed = (IF loc[p].useWallet THEN loc[p].walletAmt ELSE 0)
            /\ row.walletAmountUsed <= row.totalAmount]_vars
  /\ [](/\ FinalTotal(50000, 5000) = 45000
        /\ WalletDebitAmount(100000, FinalTotal(50000, 5000)) = 45000)

\* an order of subtotal 160.00 with the coupon's 10.00 off, placed with a
\* balance of 200.00, reserved its whole total of 150.00
C36_Witness ==
  /\ Len(orders) = 1
  /\ orders[1].subtotal = 16000 /\ orders[1].discountAmount = 1000
  /\ orders[1].totalAmount = 15000 /\ orders[1].walletAmountUsed = 15000

\* C37: for every order a gateway order was created for, the amount asked
\* of the gateway plus the wallet debits booked for the order is at most the
\* order's totalAmount
C37_NoOverCollection ==
  \A o \in 1..Len(orders) :
    orders[o].razorpayOrderId # NoRzp
      => amountInPaise(orders[o]) + SumRows(DebitsOf(o)) <= orders[o].totalAmount

\* the owner endpoint accepts a chain of at most n updates from status s to
\* collected
RECURSIVE OwnerPath(_, _)
OwnerPath(s, n) ==
  \/ s = "collected"
  \/ n > 0 /\ \E t \in OwnerAllowed(s) : OwnerPath(t, n - 1)

\* C38: from every status but cancelled an order stands in, paid included,
\* status updates the owner endpoint accepts lead to collected
C38_OwnerCanFulfil ==
  \A o \in 1..Len(orders) :
    orders[o].status # "cancelled"
      => OwnerPath(orders[o].status, Cardinality(Statuses))

\* ------------------------------------------------------ row locks
\* u1, whose first order is placed and not yet debited, cancels it from two
\* devices, tops the wallet up and checks out again, paying at the counter
LockCheckout(p) == \E u \in Shoppers :
  /\ Len(orders) < MaxPlaced
  /\ CO_Call(p, u, NoKey, FALSE, NoCoupon)

LockAddMoney(p) == \E u \in Shoppers, a \in AddAmounts :
  /\ Len(walletTx) <= MaxLedger
  /\ AM_Call(p, u, a)

NextLocks ==
  \/ AddPair
  \/ LockCheckout(1) \/ LockAddMoney(2)
  \/ \E p \in Procs :
       \/ CancelOwn(p)
       \/ CheckoutStep(p) \/ AddMoneyStep(p) \/ CancelStep(p)
       \/ Fail(p)
  \/ DebitStep

\* the database runs the next statement of every open transaction and grants a
\* row lock to its waiters in the order they queued, so a statement that can
\* run again and again is run; the event loop runs every started promise
FairLocks ==
  /\ \A p \in Procs :
       /\ SF_vars(CheckoutStep(p))
       /\ SF_vars(AddMoneyStep(p))
       /\ SF_vars(CancelStep(p))
  /\ \A u \in Users : SF_vars(\E t \in tasks : t.user = u /\ (DB_Lock(t) \/ DB_Commit(t)))

SpecLocks == InitCommitted /\ [][NextLocks]_vars /\ FairLocks

\* C39: every request that has begun a transaction ends, committed or rolled
\* back, every request waiting for a row lock with it, and every wallet row
\* lock a debit holds is released
C39_NoDeadlock ==
  /\ \A p \in Procs : (pc[p] \in TxLabels) ~> (pc[p] = "idle")
  /\ (\E t \in tasks : t.kind = "debit") ~> (\A t \in tasks : t.kind # "debit")

\* a chain of waits: the debit holds u1's wallet row, the first cancel holds
\* the order row and waits for the wallet row, the second cancel waits for the
\* order row
C39_Witness ==
  /\ \E t \in tasks : t.kind = "debit" /\ t.pc = "locked" /\ t.user = "u1"
  /\ pc[1] = "ca_tx_refund" /\ loc[1].user = "u1" /\ loc[1].amount > 0
  /\ pc[2] = "ca_tx_update" /\ loc[2].orderId = loc[1].orderId
  /\ OrderLocked(loc[2].orderId) /\ WalletLocked("u1")
  /\ ~ENABLED CancelStep(1) /\ ~ENABLED CancelStep(2)

====
